---------------------------- MODULE Spec2Model ----------------------------
(***************************************************************************)
(* A model of pathfinder's core: the Content-Length framed transport       *)
(* (transport.rs), the LSP bridge that owns the child process              *)
(* (lsp_bridge.rs), the document synchronizer (documents.rs) and the       *)
(* definition tool (tools/definition.rs).                                  *)
(*                                                                         *)
(* Bytes are one-character strings ("xC3" and "xA9" are the two bytes of   *)
(* the UTF-8 encoding of U+00E9).  A JSON value (serde_json::Value) is a   *)
(* record tagged by t: null, bool, num, str (a sequence of characters),    *)
(* arr (a sequence of values), obj (a function from keys to values).       *)
(***************************************************************************)
EXTENDS Integers, Sequences, FiniteSets, TLC

(***************************************************************************)
(* Bounds of the model.                                                    *)
(***************************************************************************)
\* Frames the peer writer sends in the transport harness.
MaxWrites == 2

\* Calls of request() by the users of a session, the handshake's included.
MaxCalls == 3

\* Frames the language server emits while one request is outstanding.
MaxFrames == 3

\* Of these, the frames it delivers in two pieces.
MaxSplits == 1

\* Seconds that pass in one step of the clock.
TickSecs == 10

\* Changes made to files in one run.
MaxEdits == 1

\* ensure_open calls in one run.
MaxEnsure == 3

\* The latest modification timestamp.
MaxMtime == 2

\* The calls of close_all.
MaxCloses == 1

\* The pieces of a stream a peer writes byte by byte.
MaxChunks == 4

\* The concurrent callers of the definition tool, and the calls they make
\* between them.
MaxCallers == 2

MaxRounds == 3

---------------------------------------------------------------------------
(***************************************************************************)
(* serde_json::Value and its text form.                                    *)
(***************************************************************************)
JNull == [t |-> "null"]

JBool(b) == [t |-> "bool", b |-> b]

JNum(n) == [t |-> "num", n |-> n]

JStr(s) == [t |-> "str", s |-> s]

JArr(a) == [t |-> "arr", a |-> a]

EmptyMap == [k \in {} |-> JNull]

MapPut(m, k, v) == [x \in (DOMAIN m) \cup {k} |-> IF x = k THEN v ELSE m[x]]

JObj(m) == [t |-> "obj", m |-> m]

Obj1(k, v) == JObj(MapPut(EmptyMap, k, v))

Obj2(k1, v1, k2, v2) == JObj(MapPut(MapPut(EmptyMap, k1, v1), k2, v2))

\* The bytes of the model in ascending byte value (the order of BTreeMap keys).
ByteOrder ==
    << "\t", "\n", "\r", " ", "\"", "+", ",", "-", ".", "/",
       "0", "1", "2", "3", "4", "5", "6", "7", "8", "9", ":",
       "C", "L", "[", "\\", "]",
       "a", "c", "d", "e", "f", "g", "h", "i", "j", "l", "m", "n", "o", "p",
       "r", "s", "t", "u", "{", "}", "xA9", "xC3" >>

Rank(b) == CHOOSE i \in 1..Len(ByteOrder) : ByteOrder[i] = b

Digits == << "0", "1", "2", "3", "4", "5", "6", "7", "8", "9" >>

IsDigit(b) == \E i \in 1..10 : Digits[i] = b

DigitVal(b) == (CHOOSE i \in 1..10 : Digits[i] = b) - 1

\* JSON insignificant whitespace; also what str::trim removes here.
IsWs(b) == b \in {" ", "\t", "\n", "\r"}

Tail2(s, n) == SubSeq(s, n + 1, Len(s))

\* The last decimal digit only.
LastDigit(n) == << Digits[(n % 10) + 1] >>

\* Display of an unsigned integer in decimal ({} in format!, i64::to_string).
RECURSIVE to_string(_)
to_string(n) ==
    IF n < 10 THEN << Digits[n + 1] >>
    ELSE to_string(n \div 10) \o << Digits[(n % 10) + 1] >>

\* The UTF-8 bytes of one character.
Utf8(c) == IF c = "U+E9" THEN << "xC3", "xA9" >> ELSE << c >>

\* serde_json's escaping of one character of a string.
EscChar(c) ==
    CASE c = "\"" -> << "\\", "\"" >>
      [] c = "\\" -> << "\\", "\\" >>
      [] c = "\n" -> << "\\", "n" >>
      [] c = "\r" -> << "\\", "r" >>
      [] c = "\t" -> << "\\", "t" >>
      [] OTHER -> Utf8(c)

RECURSIVE EscChars(_)
EscChars(s) == IF s = << >> THEN << >> ELSE EscChar(Head(s)) \o EscChars(Tail(s))

EncStr(s) == << "\"" >> \o EscChars(s) \o << "\"" >>

RECURSIVE Utf8Bytes(_)
Utf8Bytes(s) == IF s = << >> THEN << >> ELSE Utf8(Head(s)) \o Utf8Bytes(Tail(s))

\* Lexicographic order on byte strings.
RECURSIVE BytesLess(_, _)
BytesLess(a, b) ==
    IF b = << >> THEN FALSE
    ELSE IF a = << >> THEN TRUE
    ELSE IF Head(a) = Head(b) THEN BytesLess(Tail(a), Tail(b))
    ELSE Rank(Head(a)) < Rank(Head(b))

MinKey(S) == CHOOSE k \in S : \A o \in S \ {k} : BytesLess(Utf8Bytes(k), Utf8Bytes(o))

\* serde_json::to_vec: the compact text of a value, object keys in map order.
RECURSIVE to_vec(_), EncElems(_), EncMembers(_, _)
to_vec(v) ==
    CASE v.t = "null" -> << "n", "u", "l", "l" >>
      [] v.t = "bool" -> IF v.b THEN << "t", "r", "u", "e" >>
                                ELSE << "f", "a", "l", "s", "e" >>
      [] v.t = "num" -> to_string(v.n)
      [] v.t = "str" -> EncStr(v.s)
      [] v.t = "arr" -> << "[" >> \o EncElems(v.a) \o << "]" >>
      [] v.t = "obj" -> << "{" >> \o EncMembers(v.m, DOMAIN v.m) \o << "}" >>

EncElems(a) ==
    IF a = << >> THEN << >>
    ELSE to_vec(Head(a)) \o (IF Len(a) > 1 THEN << "," >> ELSE << >>) \o EncElems(Tail(a))

EncMembers(m, keys) ==
    IF keys = {} THEN << >>
    ELSE LET k == MinKey(keys)
         IN EncStr(k) \o << ":" >> \o to_vec(m[k])
               \o (IF keys = {k} THEN << >> ELSE << "," >>)
               \o EncMembers(m, keys \ {k})

Fail == [ok |-> FALSE, v |-> JNull, rest |-> << >>]

Parsed(v, rest) == [ok |-> TRUE, v |-> v, rest |-> rest]

RECURSIVE SkipWs(_)
SkipWs(s) == IF s # << >> /\ IsWs(Head(s)) THEN SkipWs(Tail(s)) ELSE s

HasPrefix(s, p) == Len(s) >= Len(p) /\ SubSeq(s, 1, Len(p)) = p

ParseLit(s, lit, v) == IF HasPrefix(s, lit) THEN Parsed(v, Tail2(s, Len(lit))) ELSE Fail

\* The characters of a string literal after its opening quote.
RECURSIVE ParseChars(_, _)
ParseChars(s, acc) ==
    IF s = << >> THEN Fail
    ELSE LET b == Head(s) IN
         CASE b = "\"" -> Parsed(JStr(acc), Tail(s))
           [] b = "\\" ->
                IF Len(s) < 2 THEN Fail
                ELSE LET e == s[2] IN
                     CASE e \in {"\"", "\\", "/"} -> ParseChars(Tail2(s, 2), Append(acc, e))
                       [] e = "n" -> ParseChars(Tail2(s, 2), Append(acc, "\n"))
                       [] e = "r" -> ParseChars(Tail2(s, 2), Append(acc, "\r"))
                       [] e = "t" -> ParseChars(Tail2(s, 2), Append(acc, "\t"))
                       [] OTHER -> Fail
           [] b \in {"\t", "\n", "\r"} -> Fail
           [] b = "xC3" ->
                IF Len(s) >= 2 /\ s[2] = "xA9"
                THEN ParseChars(Tail2(s, 2), Append(acc, "U+E9"))
                ELSE Fail
           [] b = "xA9" -> Fail
           [] OTHER -> ParseChars(Tail(s), Append(acc, b))

\* An unsigned integer literal: 0, or a digit run without a leading zero.
RECURSIVE ParseDigits(_, _)
ParseDigits(s, acc) ==
    IF s # << >> /\ IsDigit(Head(s))
    THEN ParseDigits(Tail(s), acc * 10 + DigitVal(Head(s)))
    ELSE IF s # << >> /\ Head(s) \in {".", "e"} THEN Fail
    ELSE Parsed(JNum(acc), s)

ParseNum(s) ==
    IF Head(s) = "0"
    THEN IF Len(s) >= 2 /\ (IsDigit(s[2]) \/ s[2] \in {".", "e"}) THEN Fail
         ELSE Parsed(JNum(0), Tail(s))
    ELSE ParseDigits(s, 0)

RECURSIVE ParseValue(_), ParseElems(_, _), ParseMembers(_, _)
ParseValue(s0) ==
    LET s == SkipWs(s0) IN
    IF s = << >> THEN Fail
    ELSE LET b == Head(s) IN
         CASE b = "n" -> ParseLit(s, << "n", "u", "l", "l" >>, JNull)
           [] b = "t" -> ParseLit(s, << "t", "r", "u", "e" >>, JBool(TRUE))
           [] b = "f" -> ParseLit(s, << "f", "a", "l", "s", "e" >>, JBool(FALSE))
           [] b = "\"" -> ParseChars(Tail(s), << >>)
           [] IsDigit(b) -> ParseNum(s)
           [] b = "[" ->
                LET r == SkipWs(Tail(s)) IN
                IF r # << >> /\ Head(r) = "]" THEN Parsed(JArr(<< >>), Tail(r))
                ELSE ParseElems(r, << >>)
           [] b = "{" ->
                LET r == SkipWs(Tail(s)) IN
                IF r # << >> /\ Head(r) = "}" THEN Parsed(JObj(EmptyMap), Tail(r))
                ELSE ParseMembers(r, EmptyMap)
           [] OTHER -> Fail

ParseElems(s, acc) ==
    LET e == ParseValue(s) IN
    IF ~e.ok THEN Fail
    ELSE LET r == SkipWs(e.rest) IN
         IF r = << >> THEN Fail
         ELSE IF Head(r) = "," THEN ParseElems(Tail(r), Append(acc, e.v))
         ELSE IF Head(r) = "]" THEN Parsed(JArr(Append(acc, e.v)), Tail(r))
         ELSE Fail

ParseMembers(s0, acc) ==
    LET s == SkipWs(s0) IN
    IF s = << >> \/ Head(s) # "\"" THEN Fail
    ELSE LET k == ParseChars(Tail(s), << >>) IN
         IF ~k.ok THEN Fail
         ELSE LET c == SkipWs(k.rest) IN
              IF c = << >> \/ Head(c) # ":" THEN Fail
              ELSE LET e == ParseValue(Tail(c)) IN
                   IF ~e.ok THEN Fail
                   ELSE LET r == SkipWs(e.rest)
                            m == MapPut(acc, k.v.s, e.v)
                        IN IF r = << >> THEN Fail
                           ELSE IF Head(r) = "," THEN ParseMembers(Tail(r), m)
                           ELSE IF Head(r) = "}" THEN Parsed(JObj(m), Tail(r))
                           ELSE Fail

\* serde_json::from_slice: one value and nothing but whitespace after it.
from_slice(bytes) ==
    LET p == ParseValue(bytes) IN
    IF p.ok /\ SkipWs(p.rest) = << >> THEN [ok |-> TRUE, v |-> p.v]
    ELSE [ok |-> FALSE, v |-> JNull]

---------------------------------------------------------------------------
(***************************************************************************)
(* FramedTransport (transport.rs).  wire holds the bytes the peer has      *)
(* produced and the reader has not yet taken out of its BufReader; eof     *)
(* says the peer closed the stream; rd is the state local to a read()      *)
(* call that is suspended for want of bytes.                               *)
(***************************************************************************)
VARIABLES wire, eof, rd,
          t_in, t_out

\* LspBridge (lsp_bridge.rs) and the language server process it owns.
VARIABLES child,            \* the process: "running", "stalled" or "exited"
          released,         \* how the bridge saw it end: "no", "natural", "killed"
          bpc,              \* where the bridge's running operation stands
          op,               \* the public operation that is running
          next_request_id,
          cur,              \* id and method of the request() in progress
          outcome,          \* what the operation that finished last returned
          sent,             \* the frames written to the server's stdin
          calls,            \* how many request() calls have started
          sdLog,            \* the steps shutdown() has taken after its request
          hadTimeout,       \* a request() of this session has timed out
          seen,             \* the frames the request() in progress has read
          readElapsed,      \* seconds since the running timeout() started
          callElapsed,      \* seconds since the request() in progress started
          srvPending,       \* the rest of a frame the server has sent in part
          srvFrames,        \* frames the server has emitted during this request()
          srvSplits,        \* of these, the frames delivered in two pieces
          answered,         \* the server has sent its response for cur.id
          respReady         \* a result response for cur.id is wholly on the wire

\* DocumentManager (documents.rs) and the files it reads.
VARIABLES open,             \* DocumentManager.open: uri -> version and mtime
          files,            \* the file system: path -> exists, text, mtime
          gen,              \* per path, how many times the file was changed
          dpc,              \* where the ensure_open in progress stands
          dcall,            \* the locals of the ensure_open in progress
          notes,            \* the notifications written to the server
          dclose,           \* the calls of close_all: the uris tracked at the
                            \* start, the sends attempted, what it returned
          dhist             \* the ensure_open calls that have returned

\* DefinitionTool::execute (tools/definition.rs).
VARIABLES xpc,              \* where execute stands
          attempt,          \* the loop variable of execute
          xreq,             \* the DefinitionRequest execute was called with
          queries,          \* the definition requests execute has made
          replies,          \* what request() returned to each attempt
          result            \* what execute returned

\* PathfinderService (service.rs).
VARIABLES spc,              \* where each caller of definition() stands
          locks,            \* the holder of each tokio Mutex, 0 when free
          scall,            \* each caller's current call: the locks it holds
                            \* and is about to take, what it has sent, what
                            \* it returned
          rounds            \* the calls made to the definition tool

dvars == << open, files, gen, dpc, dcall, notes, dclose, dhist >>

svars == << spc, locks, scall, rounds >>

xvars == << xpc, attempt, xreq, queries, replies, result >>

ContentLength ==
    << "C", "o", "n", "t", "e", "n", "t", "-", "L", "e", "n", "g", "t", "h" >>

content_length ==
    << "c", "o", "n", "t", "e", "n", "t", "-", "l", "e", "n", "g", "t", "h" >>

CRLF == << "\r", "\n" >>

\* The number of characters of a body: the continuation byte of a two-byte
\* character is not counted.
CharLen(body) == Len(SelectSeq(body, LAMBDA b : b # "xA9"))

\* A write whose header counts characters.
WriteChars(value) ==
    LET body == to_vec(value)
    IN ContentLength \o << ":", " " >> \o to_string(CharLen(body)) \o CRLF \o CRLF \o body

\* FramedTransport::write: header, blank line, body.
FrameHeader(body) == ContentLength \o << ":", " " >> \o to_string(Len(body)) \o CRLF \o CRLF

write(value) == LET body == to_vec(value) IN FrameHeader(body) \o body

to_ascii_lowercase(b) ==
    CASE b = "A" -> "a" [] b = "C" -> "c" [] b = "E" -> "e" [] b = "G" -> "g"
      [] b = "H" -> "h" [] b = "L" -> "l" [] b = "N" -> "n" [] b = "O" -> "o"
      [] b = "T" -> "t" [] b = "X" -> "x" [] OTHER -> b

RECURSIVE LowerAll(_)
LowerAll(s) == IF s = << >> THEN << >> ELSE << to_ascii_lowercase(Head(s)) >> \o LowerAll(Tail(s))

RECURSIVE trim_end_matches(_)
trim_end_matches(s) ==
    IF s # << >> /\ s[Len(s)] \in {"\r", "\n"}
    THEN trim_end_matches(SubSeq(s, 1, Len(s) - 1))
    ELSE s

RECURSIVE TrimEnd(_)
TrimEnd(s) == IF s # << >> /\ IsWs(s[Len(s)]) THEN TrimEnd(SubSeq(s, 1, Len(s) - 1)) ELSE s

trim(s) == TrimEnd(SkipWs(s))

\* Index of the first b in s, 0 when there is none.
RECURSIVE IndexFrom(_, _, _)
IndexFrom(s, b, i) ==
    IF i > Len(s) THEN 0 ELSE IF s[i] = b THEN i ELSE IndexFrom(s, b, i + 1)

IndexOf(s, b) == IndexFrom(s, b, 1)

\* read_line rejects a line that is not UTF-8.
RECURSIVE Utf8Valid(_)
Utf8Valid(s) ==
    IF s = << >> THEN TRUE
    ELSE IF Head(s) = "xC3" THEN Len(s) >= 2 /\ s[2] = "xA9" /\ Utf8Valid(Tail2(s, 2))
    ELSE IF Head(s) = "xA9" THEN FALSE
    ELSE Utf8Valid(Tail(s))

\* str::parse::<usize>: an optional plus sign and at least one digit.
RECURSIVE DigitsValue(_, _)
DigitsValue(s, acc) ==
    IF s = << >> THEN acc
    ELSE IF IsDigit(Head(s)) THEN DigitsValue(Tail(s), acc * 10 + DigitVal(Head(s)))
    ELSE -1

parse_usize(s) ==
    LET d == IF s # << >> /\ Head(s) = "+" THEN Tail(s) ELSE s
    IN IF d = << >> THEN -1 ELSE DigitsValue(d, 0)

RdFresh == [phase |-> "headers", line |-> << >>, headers |-> EmptyMap, need |-> 0, buf |-> << >>]

ReadOut(st, v, r, w) == [st |-> st, v |-> v, rd |-> r, wire |-> w]

\* An end of stream that is an error wherever it comes.
EofIsError(headers) == "err"

\* read_line returned 0 bytes: Ok(None) before any header, an error after.
AtEof(headers) == IF headers = EmptyMap THEN "none" ELSE "err"

\* read_headers, run until it returns or has to wait for bytes.  st is
\* "headers" (Ok(Some)), "none" (Ok(None)), "err" or "pending".
RECURSIVE read_headers(_, _, _, _)
read_headers(headers, line, w, closed) ==
    LET nl == IndexOf(w, "\n") IN
    IF nl = 0 /\ ~closed
    THEN ReadOut("pending", JNull,
                 [RdFresh EXCEPT !.line = line \o w, !.headers = headers], << >>)
    ELSE LET got == IF nl = 0 THEN line \o w ELSE line \o SubSeq(w, 1, nl)
             rest == IF nl = 0 THEN << >> ELSE Tail2(w, nl)
             trimmed == trim_end_matches(got)
             colon == IndexOf(trimmed, ":")
         IN IF ~Utf8Valid(got) THEN ReadOut("err", JNull, RdFresh, rest)
            ELSE IF got = << >>
            THEN ReadOut(AtEof(headers), JNull, RdFresh, rest)
            ELSE IF trimmed = << >>
            THEN IF headers = EmptyMap THEN read_headers(headers, << >>, rest, closed)
                 ELSE ReadOut("headers", JNull, [RdFresh EXCEPT !.headers = headers], rest)
            ELSE IF colon # 0
            THEN read_headers(
                     MapPut(headers, LowerAll(trim(SubSeq(trimmed, 1, colon - 1))),
                            trim(Tail2(trimmed, colon))),
                     << >>, rest, closed)
            ELSE read_headers(headers, << >>, rest, closed)

\* A read of the body that loses the bytes buffered after it.
ReadBodyDropsRest(need, buf, w, closed) ==
    LET have == buf \o w IN
    IF Len(have) >= need
    THEN LET value == from_slice(SubSeq(have, 1, need)) IN
         ReadOut(IF value.ok THEN "some" ELSE "err", value.v, RdFresh, << >>)
    ELSE IF closed THEN ReadOut("err", JNull, RdFresh, << >>)
    ELSE ReadOut("pending", JNull,
                 [RdFresh EXCEPT !.phase = "body", !.need = need, !.buf = have], << >>)

\* read_exact of need bytes, then from_slice.
read_body(need, buf, w, closed) ==
    LET have == buf \o w IN
    IF Len(have) >= need
    THEN LET value == from_slice(SubSeq(have, 1, need)) IN
         ReadOut(IF value.ok THEN "some" ELSE "err", value.v, RdFresh, Tail2(have, need))
    ELSE IF closed THEN ReadOut("err", JNull, RdFresh, << >>)
    ELSE ReadOut("pending", JNull,
                 [RdFresh EXCEPT !.phase = "body", !.need = need, !.buf = have], << >>)

\* FramedTransport::read, resumed from r: "some" (Ok(Some(v))), "none"
\* (Ok(None)), "err", or "pending" with the state it is suspended in.
read(r, w, closed) ==
    IF r.phase = "body" THEN read_body(r.need, r.buf, w, closed)
    ELSE LET h == read_headers(r.headers, r.line, w, closed) IN
         IF h.st # "headers" THEN h
         ELSE IF content_length \notin DOMAIN h.rd.headers THEN ReadOut("err", JNull, RdFresh, h.wire)
         ELSE LET length == parse_usize(h.rd.headers[content_length]) IN
              IF length < 0 THEN ReadOut("err", JNull, RdFresh, h.wire)
              ELSE read_body(length, << >>, h.wire, closed)

---------------------------------------------------------------------------
(***************************************************************************)
(* LspBridge (lsp_bridge.rs).                                              *)
(***************************************************************************)
REQUEST_TIMEOUT == 15

K_id == << "i", "d" >>

K_result == << "r", "e", "s", "u", "l", "t" >>

K_error == << "e", "r", "r", "o", "r" >>

K_method == << "m", "e", "t", "h", "o", "d" >>

\* An id check that accepts every response.
AnyId(candidate, id) == TRUE

\* A check that also takes the ids of earlier requests.
UpToId(candidate, id) ==
    \/ candidate.t = "num" /\ candidate.n <= id
    \/ candidate.t = "str" /\ candidate.s = to_string(id)

\* Checks if a JSON value matches the expected request ID.
matches_id(candidate, id) ==
    \/ candidate.t = "num" /\ candidate.n = id
    \/ candidate.t = "str" /\ candidate.s = to_string(id)

\* A read loop that looks for the error field before the result field.
ErrorFirst(message, id) ==
    IF message.t # "obj" THEN "continue"
    ELSE IF K_id \notin DOMAIN message.m THEN "continue"
    ELSE IF ~matches_id(message.m[K_id], id) THEN "continue"
    ELSE IF K_error \in DOMAIN message.m THEN "remote"
    ELSE IF K_result \in DOMAIN message.m THEN "ok"
    ELSE "protocol"

\* What the read loop of request() does with one message: "continue",
\* or return "ok", "remote" (an error response) or "protocol".
Dispatch(message, id) ==
    IF message.t # "obj" THEN "continue"
    ELSE IF K_id \notin DOMAIN message.m THEN "continue"
    ELSE IF ~matches_id(message.m[K_id], id) THEN "continue"
    ELSE IF K_result \in DOMAIN message.m THEN "ok"
    ELSE IF K_error \in DOMAIN message.m THEN "remote"
    ELSE "protocol"

\* The value request() returns with.
Payload(message, kind) ==
    CASE kind = "ok" -> message.m[K_result]
      [] kind = "remote" -> message.m[K_error]
      [] OTHER -> JNull

\* next_request_id left as it is.
KeepId(id) == id

\* next_request_id += 1
BumpId(id) == id + 1

Min(a, b) == IF a < b THEN a ELSE b

MaxElapsed == REQUEST_TIMEOUT + TickSecs

NoCall == [id |-> 0, method |-> "none", afterTimeout |-> FALSE]

NoOutcome == [fn |-> "none", kind |-> "none", id |-> 0, val |-> JNull, ready |-> FALSE]

Returned(fn, kind, id, val, ready) ==
    [fn |-> fn, kind |-> kind, id |-> id, val |-> val, ready |-> ready]

RequestFrame(id, method, call) == [kind |-> "request", id |-> id, method |-> method, call |-> call]

NotifyFrame(method) == [kind |-> "notification", id |-> 0, method |-> method, call |-> 0]

NoPending == [rest |-> << >>, id |-> 0]

\* What the bridge's actions leave alone: the transport harness.
nonBridge == << t_in, t_out, dvars, xvars, svars >>

\* The reading side of a transport: the stream and the read() in progress.
tvars == << wire, eof, rd >>

process == << child, released >>

calling == << next_request_id, cur, calls >>

session == << calling, sdLog >>

clock == << readElapsed, callElapsed >>

server == << srvPending, srvFrames, srvSplits, answered, respReady >>

bvars == << process, bpc, op, session, outcome, sent, hadTimeout, seen, clock, server >>

\* The state LspBridge::new_with_command returns with a fresh process.
BInit ==
    /\ child = "running"
    /\ released = "no"
    /\ bpc = "fresh"
    /\ op = "none"
    /\ next_request_id = 1
    /\ cur = NoCall
    /\ outcome = NoOutcome
    /\ sent = << >>
    /\ calls = 0
    /\ sdLog = << >>
    /\ hadTimeout = FALSE
    /\ seen = << >>
    /\ readElapsed = 0
    /\ callElapsed = 0
    /\ srvPending = NoPending
    /\ srvFrames = 0
    /\ srvSplits = 0
    /\ answered = FALSE
    /\ respReady = FALSE

\* request(): the id is taken and the counter advanced before the write.
BeginRequest(method) ==
    /\ cur' = [id |-> next_request_id, method |-> method, afterTimeout |-> hadTimeout]
    /\ next_request_id' = BumpId(next_request_id)
    /\ calls' = calls + 1
    /\ bpc' = "write"
    /\ outcome' = NoOutcome
    /\ seen' = << >>
    /\ readElapsed' = 0
    /\ callElapsed' = 0
    /\ srvFrames' = 0
    /\ srvSplits' = 0
    /\ answered' = FALSE
    /\ respReady' = FALSE
    /\ UNCHANGED << nonBridge, tvars, process, sent, sdLog, hadTimeout, srvPending >>

\* initialize() goes on to 'initialized' whatever its request returned.
InitializedAnyway(caller, kind) ==
    CASE caller = "initialize" -> "init_notify"
      [] caller = "shutdown" -> IF kind = "ok" THEN "sd_exit" ELSE "sd_kill"
      [] OTHER -> "idle"

\* shutdown() goes on to 'exit' whatever its request returned.
AlwaysExit(caller, kind) ==
    CASE caller = "initialize" -> IF kind = "ok" THEN "init_notify" ELSE "dropped"
      [] caller = "shutdown" -> "sd_exit"
      [] OTHER -> "idle"

\* Where the caller of request() goes on when request() returns kind.
AfterRequest(caller, kind) ==
    CASE caller = "initialize" -> IF kind = "ok" THEN "init_notify" ELSE "dropped"
      [] caller = "shutdown" -> IF kind = "ok" THEN "sd_exit" ELSE "sd_kill"
      [] OTHER -> "idle"

\* request() returns.
Finish(kind, val) ==
    /\ outcome' = Returned("request", kind, cur.id, val, respReady)
    /\ hadTimeout' = (hadTimeout \/ kind = "timeout")
    /\ bpc' = AfterRequest(op, kind)
    /\ op' = IF AfterRequest(op, kind) \in {"idle", "dropped"} THEN "none" ELSE op

\* initialize(): the 'initialize' request.
StartInitialize ==
    /\ bpc = "fresh"
    /\ op' = "initialize"
    /\ BeginRequest("initialize")

\* A request() by a user of the session (DefinitionTool::execute).
StartRequest ==
    /\ bpc = "idle"
    /\ calls < MaxCalls
    /\ op' = "request"
    /\ BeginRequest("textDocument/definition")

\* shutdown(), step 1: the 'shutdown' request.
StartShutdown ==
    /\ bpc = "idle"
    /\ op' = "shutdown"
    /\ BeginRequest("shutdown")

\* transport.write(): write_all and flush on the server's stdin, awaited with
\* no timeout.  It completes while the server reads, fails once the server
\* is gone, and against a server that has stopped reading it completes if the
\* pipe has room for the frame and never returns if it has not.
WriteOutcomes ==
    CASE child = "running" -> {"ok"}
      [] child = "stalled" -> {"ok", "blocked"}
      [] OTHER -> {"failed"}

\* self.transport.write(&payload).await? in request().
RequestWrite ==
    /\ bpc = "write"
    /\ \E w \in WriteOutcomes :
          CASE w = "ok" ->
                 /\ sent' = Append(sent, RequestFrame(cur.id, cur.method, calls))
                 /\ bpc' = "wait"
                 /\ UNCHANGED << outcome, hadTimeout, op >>
            [] w = "blocked" ->
                 /\ bpc' = "write_blocked"
                 /\ UNCHANGED << sent, outcome, hadTimeout, op >>
            [] OTHER ->
                 /\ Finish("write", JNull)
                 /\ UNCHANGED sent
    /\ UNCHANGED << nonBridge, tvars, process, session, seen, clock, server >>

\* One turn of the read loop: timeout(REQUEST_TIMEOUT, self.transport.read())
\* gets bytes and the message, if one is complete, is dispatched.
RequestRead ==
    /\ bpc = "wait"
    /\ wire # << >> \/ eof
    /\ LET r == read(rd, wire, eof)
           kind == Dispatch(r.v, cur.id)
       IN /\ wire' = r.wire
          /\ rd' = r.rd
          /\ CASE r.st = "pending" ->
                    UNCHANGED << seen, readElapsed, outcome, hadTimeout, bpc, op >>
               [] r.st = "some" ->
                    /\ seen' = Append(seen, r.v)
                    /\ IF kind = "continue"
                       THEN /\ readElapsed' = 0
                            /\ UNCHANGED << outcome, hadTimeout, bpc, op >>
                       ELSE /\ Finish(kind, Payload(r.v, kind))
                            /\ UNCHANGED readElapsed
               [] r.st = "none" ->
                    /\ Finish("eof", JNull)
                    /\ UNCHANGED << seen, readElapsed >>
               [] OTHER ->
                    /\ Finish("framing", JNull)
                    /\ UNCHANGED << seen, readElapsed >>
    /\ UNCHANGED << nonBridge, eof, process, session, sent, callElapsed, server >>

\* The timeout elapses: the read() future is dropped with what it had taken.
RequestTimeout ==
    /\ bpc = "wait"
    /\ readElapsed >= REQUEST_TIMEOUT
    /\ wire = << >> /\ ~eof
    /\ rd' = RdFresh
    /\ Finish("timeout", JNull)
    /\ UNCHANGED << nonBridge, wire, eof, process, session, sent, seen, clock, server >>

\* Time passes while the bridge waits in a timeout().
Tick ==
    /\ \/ bpc = "wait" /\ wire = << >> /\ ~eof
       \/ bpc = "sd_wait" /\ child # "exited"
    /\ readElapsed < REQUEST_TIMEOUT
    /\ LET d == Min(TickSecs, REQUEST_TIMEOUT - readElapsed) IN
          /\ readElapsed' = readElapsed + d
          /\ callElapsed' = Min(callElapsed + d, MaxElapsed)
    /\ UNCHANGED << nonBridge, tvars, process, bpc, op, session, outcome, sent,
                    hadTimeout, seen, server >>

\* initialize(): the 'initialized' notification.
InitNotify ==
    /\ bpc = "init_notify"
    /\ \E w \in WriteOutcomes :
          CASE w = "ok" ->
                 /\ sent' = Append(sent, NotifyFrame("initialized"))
                 /\ outcome' = Returned("initialize", "ok", 0, JNull, FALSE)
                 /\ bpc' = "idle"
                 /\ op' = "none"
            [] w = "blocked" ->
                 /\ bpc' = "write_blocked"
                 /\ UNCHANGED << sent, outcome, op >>
            [] OTHER ->
                 /\ outcome' = Returned("initialize", "write", 0, JNull, FALSE)
                 /\ bpc' = "dropped"
                 /\ op' = "none"
                 /\ UNCHANGED sent
    /\ UNCHANGED << nonBridge, tvars, process, session, hadTimeout, seen, clock, server >>

\* A step of shutdown() after its request, with what the request had
\* returned and whether the step succeeded.
Step(step, ok) == [step |-> step, ok |-> ok, request |-> outcome.kind]

\* shutdown(), step 2: the 'exit' notification, its failure only logged.
SdExit ==
    /\ bpc = "sd_exit"
    /\ \E w \in WriteOutcomes :
          IF w = "blocked"
          THEN /\ bpc' = "write_blocked"
               /\ UNCHANGED << sent, sdLog, readElapsed >>
          ELSE /\ sent' = IF w = "ok" THEN Append(sent, NotifyFrame("exit")) ELSE sent
               /\ sdLog' = Append(sdLog, Step("exit", w = "ok"))
               /\ bpc' = "sd_wait"
               /\ readElapsed' = 0
    /\ UNCHANGED << nonBridge, tvars, process, op, calling, outcome, hadTimeout, seen,
                    callElapsed, server >>

\* shutdown(), step 3: child.wait() returns the exit status.
SdWaitOk ==
    /\ bpc = "sd_wait"
    /\ child = "exited"
    /\ released' = "natural"
    /\ sdLog' = Append(sdLog, Step("wait", TRUE))
    /\ outcome' = Returned("shutdown", "ok", 0, JNull, FALSE)
    /\ bpc' = "closed"
    /\ op' = "none"
    /\ UNCHANGED << nonBridge, tvars, child, calling, sent, hadTimeout, seen, clock,
                    server >>

\* shutdown(), step 3: child.wait() fails.
SdWaitErr ==
    /\ bpc = "sd_wait"
    /\ bpc' = "sd_kill"
    /\ sdLog' = Append(sdLog, Step("wait", FALSE))
    /\ UNCHANGED << nonBridge, tvars, process, op, calling, outcome, sent, hadTimeout,
                    seen, clock, server >>

\* shutdown(), step 3: the process has not exited when the timeout elapses.
SdWaitTimeout ==
    /\ bpc = "sd_wait"
    /\ readElapsed >= REQUEST_TIMEOUT
    /\ child # "exited"
    /\ bpc' = "sd_kill"
    /\ sdLog' = Append(sdLog, Step("wait timeout", FALSE))
    /\ UNCHANGED << nonBridge, tvars, process, op, calling, outcome, sent, hadTimeout,
                    seen, clock, server >>

\* A kill() that reports success without ending the process.
KillSkipped ==
    /\ outcome' = Returned("shutdown", "ok", 0, JNull, FALSE)
    /\ UNCHANGED << child, eof, released >>

\* self.child.kill().await succeeds: the process is gone and reaped.
KillOk ==
    /\ child' = "exited"
    /\ eof' = TRUE
    /\ released' = "killed"
    /\ outcome' = Returned("shutdown", "ok", 0, JNull, FALSE)

\* self.child.kill().await fails: .context(..)? returns the error.
KillErr ==
    /\ outcome' = Returned("shutdown", "kill", 0, JNull, FALSE)
    /\ UNCHANGED << child, eof, released >>

\* shutdown(), step 4: the forced kill, after a failed 'shutdown' request, a
\* failed wait or a timed-out wait.
SdKill ==
    /\ bpc = "sd_kill"
    /\ KillOk \/ KillErr
    /\ sdLog' = Append(sdLog, Step("kill", outcome'.kind = "ok"))
    /\ bpc' = "closed"
    /\ op' = "none"
    /\ UNCHANGED << nonBridge, wire, rd, calling, sent, hadTimeout, seen, clock, server >>

(***************************************************************************)
(* The language server: while a request is outstanding it sends            *)
(* notifications, results for the request before, and one response for     *)
(* the request; it may deliver a frame in two pieces, and it may exit.     *)
(* The bridge, blocked in read(), takes the bytes as they arrive, so the   *)
(* server's next bytes find the pipe empty.                                *)
(***************************************************************************)
ResultOf(id) == JNum(10 + id)

RespMsg(id) == Obj2(K_id, JNum(id), K_result, ResultOf(id))

ErrMsg(id) == Obj2(K_id, JNum(id), K_error, JNum(1))

\* A response with neither result nor error.
BareMsg(id) == Obj1(K_id, JNum(id))

NotifMsg == Obj1(K_method, JStr(<< "n" >>))

\* A response whose result is null.
NullMsg(id) == Obj2(K_id, JNum(id), K_result, JNull)

\* A response with a result field and an error field.
BothMsg(id) == JObj(MapPut(ErrMsg(id).m, K_result, ResultOf(id)))

\* A response that gives the id as a string.
TextIdMsg(id) == Obj2(K_id, JStr(to_string(id)), K_result, ResultOf(id))

\* A request of the server to the client: an id of the server's own
\* numbering and a method.
CallMsg(id) == Obj2(K_id, JNum(id), K_method, JStr(<< "n" >>))

\* The server's messages, by kind and id, and their frames.
ServerMsg(k) ==
    CASE k[1] = "result" -> RespMsg(k[2])
      [] k[1] = "error" -> ErrMsg(k[2])
      [] k[1] = "bare" -> BareMsg(k[2])
      [] k[1] = "null" -> NullMsg(k[2])
      [] k[1] = "both" -> BothMsg(k[2])
      [] k[1] = "text" -> TextIdMsg(k[2])
      [] k[1] = "call" -> CallMsg(k[2])
      [] OTHER -> NotifMsg

ResultKinds == {"result", "null", "both", "text"}

MsgKeys ==
    {<< "notification", 0 >>}
        \cup ((ResultKinds \cup {"error", "bare", "call"}) \X (1..(MaxCalls + 1)))

ServerFrame == [k \in MsgKeys |-> write(ServerMsg(k))]

BodyLen == [k \in MsgKeys |-> Len(to_vec(ServerMsg(k)))]

\* Where a frame may be split: inside the header line, inside the body.
Cuts(frameLen, bodyLen) == { 3, frameLen - bodyLen + 2 }

\* What the server may send while the request cur.id is outstanding.
ServerChoices ==
    {<< "notification", 0 >>}
        \cup (IF cur.id > 1 THEN {<< "result", cur.id - 1 >>} ELSE {})
        \cup (IF answered THEN {} ELSE {"result", "error", "bare"} \X {cur.id})

ServerEmit ==
    /\ bpc = "wait"
    /\ child = "running"
    /\ wire = << >>
    /\ srvPending = NoPending
    /\ srvFrames < MaxFrames
    /\ \E k \in ServerChoices :
          \E cut \in (IF srvSplits < MaxSplits THEN Cuts(Len(ServerFrame[k]), BodyLen[k]) ELSE {})
                         \cup {Len(ServerFrame[k])} :
             /\ srvSplits' = IF cut = Len(ServerFrame[k]) THEN srvSplits ELSE srvSplits + 1
             /\ wire' = wire \o SubSeq(ServerFrame[k], 1, cut)
             /\ srvPending' = IF cut = Len(ServerFrame[k]) THEN NoPending
                              ELSE [rest |-> Tail2(ServerFrame[k], cut),
                                    id |-> IF k[1] = "result" THEN k[2] ELSE 0]
             /\ answered' = (answered \/ k[2] = cur.id)
             /\ respReady' = (respReady \/ (cut = Len(ServerFrame[k]) /\ k = << "result", cur.id >>))
    /\ srvFrames' = srvFrames + 1
    /\ UNCHANGED << nonBridge, eof, rd, process, bpc, op, session, outcome, sent,
                    hadTimeout, seen, clock >>

ServerFlush ==
    /\ bpc = "wait"
    /\ child = "running"
    /\ wire = << >>
    /\ srvPending # NoPending
    /\ wire' = wire \o srvPending.rest
    /\ srvPending' = NoPending
    /\ respReady' = (respReady \/ srvPending.id = cur.id)
    /\ UNCHANGED << nonBridge, eof, rd, process, bpc, op, session, outcome, sent,
                    hadTimeout, seen, clock, srvFrames, srvSplits, answered >>

\* What a server that also answers with null, with both fields or with a
\* string id, and that sends requests of its own, may send.
AnyServerChoices ==
    ServerChoices
        \cup {<< "call", cur.id >>}
        \cup (IF answered THEN {} ELSE {"null", "both", "text"} \X {cur.id})

\* Such a server sends one whole frame.
ServerSend ==
    /\ bpc = "wait"
    /\ child = "running"
    /\ wire = << >>
    /\ srvPending = NoPending
    /\ srvFrames < MaxFrames
    /\ \E k \in AnyServerChoices :
          /\ wire' = ServerFrame[k]
          /\ answered' = (answered \/ (k[1] # "call" /\ k[2] = cur.id))
          /\ respReady' = (respReady \/ (k[1] \in ResultKinds /\ k[2] = cur.id))
    /\ srvFrames' = srvFrames + 1
    /\ UNCHANGED << nonBridge, eof, rd, process, bpc, op, session, outcome, sent,
                    hadTimeout, seen, clock, srvPending, srvSplits >>

\* The server stops reading its standard input and does nothing further.
ServerStall ==
    /\ bpc \in {"wait", "idle"}
    /\ child = "running"
    /\ child' = "stalled"
    /\ UNCHANGED << nonBridge, tvars, released, bpc, op, session, outcome, sent,
                    hadTimeout, seen, clock, server >>

ServerExit ==
    /\ bpc \in {"wait", "sd_wait", "idle"}
    /\ child = "running"
    /\ child' = "exited"
    /\ eof' = TRUE
    /\ srvPending' = NoPending
    /\ UNCHANGED << nonBridge, wire, rd, released, bpc, op, session, outcome, sent,
                    hadTimeout, seen, clock, srvFrames, srvSplits, answered, respReady >>

---------------------------------------------------------------------------
(***************************************************************************)
(* DocumentManager (documents.rs): ensure_open, against files that are     *)
(* written and removed while it runs.  The session it announces to is      *)
(* taken as the outcome of each notify().                                  *)
(***************************************************************************)
Uri(scheme, stem, ext) == [scheme |-> scheme, stem |-> stem, ext |-> ext]

Uris == { Uri("file", "/a", "rs"), Uri("file", "/b", ""), Uri("http", "/c", "rs") }

Texts == { "fn a", "fn b" }

\* A to_file_path that takes the path of an http reference as well.
AnyScheme(uri) == uri.scheme \in {"file", "http"}

\* Url::to_file_path: only a file:// uri has one.
IsFileUri(uri) == uri.scheme = "file"

to_file_path(uri) == [stem |-> uri.stem, ext |-> uri.ext]

Paths == { to_file_path(u) : u \in { v \in Uris : IsFileUri(v) } }

language_id_for_path(path) ==
    CASE path.ext = "rs" -> "rust"
      [] path.ext = "go" -> "go"
      [] path.ext = "py" -> "python"
      [] path.ext = "" -> "plaintext"
      [] OTHER -> path.ext

\* A timestamp counts as newer whenever it is not older.
NotOlder(a, b) == a >= b

\* A timestamp counts as newer whenever it differs.
Differs(a, b) == a # b

\* is_newer: a.duration_since(b) is Ok(d) when a is not before b, and the
\* answer is then d > 0; it is false when a is before b.
is_newer(a, b) == IF a >= b THEN a - b > 0 ELSE FALSE

\* The version is announced again.
SameVersion(version) == version

\* let next_version = state.version + 1
NextVersion(version) == version + 1

DocumentState(version, mtime) == [version |-> version, mtime |-> mtime]

DidOpen(uri, language_id, version, text) ==
    [method |-> "textDocument/didOpen", uri |-> uri, languageId |-> language_id,
     version |-> version, text |-> text]

DidChange(uri, version, text) ==
    [method |-> "textDocument/didChange", uri |-> uri, languageId |-> "",
     version |-> version, text |-> text]

\* No notification.
NoNote == [method |-> "none", uri |-> Uri("", "", ""), languageId |-> "", version |-> 0,
           text |-> ""]

\* What the map holds for uri.
Entry(map, uri) ==
    IF uri \in DOMAIN map
    THEN [tracked |-> TRUE, version |-> map[uri].version, mtime |-> map[uri].mtime]
    ELSE [tracked |-> FALSE, version |-> 0, mtime |-> 0]

\* The file behind uri as it is now: how often it was changed, its text.
FileNow(uri) ==
    IF IsFileUri(uri)
    THEN [gen |-> gen[to_file_path(uri)],
          text |-> IF files[to_file_path(uri)].exists THEN files[to_file_path(uri)].text
                   ELSE "(none)"]
    ELSE [gen |-> 0, text |-> "(none)"]

NoDCall == [uri |-> Uri("", "", ""), modified |-> 0, pre |-> Entry(EmptyMap, Uri("", "", "")),
            start |-> [gen |-> 0, text |-> "(none)"]]

\* What the document manager's actions leave alone.
nonDocs == << tvars, t_in, t_out, bvars, xvars, svars >>

DInit ==
    /\ open = EmptyMap
    /\ files = [p \in Paths |-> [exists |-> TRUE, text |-> "fn a", mtime |-> 1]]
    /\ gen = [p \in Paths |-> 0]
    /\ dpc = "idle"
    /\ dcall = NoDCall
    /\ notes = << >>
    /\ dclose = << >>
    /\ dhist = << >>

\* An ensure_open that records the document before the announcement.
InsertedAnyway(map, uri, state) == MapPut(map, uri, state)

\* The ? on send_did_open and send_did_change: the insert that follows is
\* not reached, the map stays as it is.
AfterFailedSend(map, uri, state) == map

\* ensure_open returns: the call as the properties below look at it.
DReturn(uri, ok, err, tried, note, modified, got, pre, start, map) ==
    /\ dhist' = Append(dhist,
          [uri |-> uri, ok |-> ok, err |-> err, tried |-> tried,
           sent |-> IF note = NoNote THEN << >> ELSE << note >>,
           modified |-> modified, read |-> got,
           pre |-> pre, post |-> Entry(map, uri),
           start |-> start, end |-> FileNow(uri)])
    /\ notes' = IF note = NoNote THEN notes ELSE Append(notes, note)
    /\ open' = map
    /\ dpc' = "idle"
    /\ dcall' = NoDCall

\* ensure_open up to the match: uri_to_path, fs::metadata, and the arm for
\* a document that is open and unchanged.
EnsureOpenStat ==
    /\ dpc = "idle"
    /\ Len(dhist) < MaxEnsure
    /\ \E uri \in Uris :
          LET pre == Entry(open, uri)
              start == FileNow(uri)
              path == to_file_path(uri)
          IN IF ~IsFileUri(uri)
             THEN DReturn(uri, FALSE, "scheme", NoNote, NoNote, -1, "(none)", pre, start, open)
             ELSE IF ~files[path].exists
             THEN DReturn(uri, FALSE, "missing", NoNote, NoNote, -1, "(none)", pre, start, open)
             ELSE IF uri \in DOMAIN open /\ ~is_newer(files[path].mtime, open[uri].mtime)
             THEN DReturn(uri, TRUE, "", NoNote, NoNote, files[path].mtime, "(none)", pre, start, open)
             ELSE /\ dpc' = "read"
                  /\ dcall' = [uri |-> uri, modified |-> files[path].mtime,
                               pre |-> pre, start |-> start]
                  /\ UNCHANGED << open, notes, dhist >>
    /\ UNCHANGED << files, gen, dclose, nonDocs >>

\* The other two arms: fs::read_to_string, the announcement, the insert.
EnsureOpenSync ==
    /\ dpc = "read"
    /\ LET uri == dcall.uri
           path == to_file_path(uri)
           text == files[path].text
           note == IF uri \in DOMAIN open
                   THEN DidChange(uri, NextVersion(open[uri].version), text)
                   ELSE DidOpen(uri, language_id_for_path(path), 1, text)
       IN IF ~files[path].exists
          THEN DReturn(uri, FALSE, "read", NoNote, NoNote, dcall.modified, "(none)",
                       dcall.pre, dcall.start, open)
          ELSE \/ DReturn(uri, TRUE, "", note, note, dcall.modified, text, dcall.pre,
                          dcall.start,
                          MapPut(open, uri, DocumentState(note.version, dcall.modified)))
               \/ DReturn(uri, FALSE, "notify", note, NoNote, dcall.modified, text,
                          dcall.pre, dcall.start,
                          AfterFailedSend(open, uri,
                                          DocumentState(note.version, dcall.modified)))
    /\ UNCHANGED << files, gen, dclose, nonDocs >>

DidClose(uri) ==
    [method |-> "textDocument/didClose", uri |-> uri, languageId |-> "", version |-> 0,
     text |-> ""]

\* self.open.keys(): the uris of the map, each once, in any order.
Keys(map) ==
    { q \in [1..Cardinality(DOMAIN map) -> DOMAIN map] :
        \A i, j \in DOMAIN q : i # j => q[i] # q[j] }

\* A loop that returns at the first send that fails.
StopAtFailure(keys, failed) ==
    LET bad == { i \in DOMAIN keys : keys[i] \in failed }
        n == IF bad = {} THEN Len(keys) ELSE CHOOSE i \in bad : \A j \in bad : i <= j
    IN [i \in 1..n |-> [uri |-> keys[i], ok |-> keys[i] \notin failed]]

\* for uri in keys { let _ = self.send_did_close(lsp, &uri).await; }: one
\* send per uri, its result dropped.
CloseAttempts(keys, failed) ==
    [i \in 1..Len(keys) |-> [uri |-> keys[i], ok |-> keys[i] \notin failed]]

\* A close_all that leaves the map as it is.
Kept(map) == map

\* self.open.clear()
clear(map) == EmptyMap

\* close_all: the sends, self.open.clear(), Ok(()).
CloseAll ==
    /\ dpc = "idle"
    /\ Len(dclose) < MaxCloses
    /\ \E keys \in Keys(open), failed \in SUBSET DOMAIN open :
          LET attempts == CloseAttempts(keys, failed)
              done == SelectSeq(attempts, LAMBDA a : a.ok)
          IN /\ notes' = notes \o [i \in 1..Len(done) |-> DidClose(done[i].uri)]
             /\ dclose' = Append(dclose, [tracked |-> DOMAIN open, attempts |-> attempts,
                                          ret |-> "Ok", at |-> Len(notes)])
    /\ open' = clear(open)
    /\ UNCHANGED << files, gen, dpc, dcall, dhist, nonDocs >>

RECURSIVE SumOver(_, _)
SumOver(f, S) == IF S = {} THEN 0 ELSE LET x == CHOOSE y \in S : TRUE IN f[x] + SumOver(f, S \ {x})

\* The changes made to files so far.
Edits == SumOver(gen, Paths)

\* Another program writes a file: any text, any timestamp.
WriteFile ==
    /\ Edits < MaxEdits
    /\ \E p \in Paths, text \in Texts, mtime \in 0..MaxMtime :
          /\ files' = [files EXCEPT ![p] = [exists |-> TRUE, text |-> text, mtime |-> mtime]]
          /\ gen' = [gen EXCEPT ![p] = @ + 1]
    /\ UNCHANGED << open, dpc, dcall, notes, dclose, dhist, nonDocs >>

\* Another program rewrites a file: another text, a later timestamp.
TouchFile ==
    /\ Edits < MaxEdits
    /\ \E p \in Paths :
          /\ files[p].exists
          /\ files' = [files EXCEPT ![p] = [exists |-> TRUE,
                                            text |-> IF @.text = "fn a" THEN "fn b" ELSE "fn a",
                                            mtime |-> @.mtime + 1]]
          /\ gen' = [gen EXCEPT ![p] = @ + 1]
    /\ UNCHANGED << open, dpc, dcall, notes, dclose, dhist, nonDocs >>

\* Another program removes a file.
RemoveFile ==
    /\ Edits < MaxEdits
    /\ \E p \in Paths :
          /\ files[p].exists
          /\ files' = [files EXCEPT ![p].exists = FALSE]
          /\ gen' = [gen EXCEPT ![p] = @ + 1]
    /\ UNCHANGED << open, dpc, dcall, notes, dclose, dhist, nonDocs >>

---------------------------------------------------------------------------
(***************************************************************************)
(* DefinitionTool::execute (tools/definition.rs).  The session it queries  *)
(* is taken as what each request() returns.                                *)
(***************************************************************************)
MAX_RETRIES == 3

\* A loop over 1..MAX_RETRIES, the end excluded.
EndExcluded(n) == n + 1 < MAX_RETRIES

\* for attempt in 1..=MAX_RETRIES: there is a turn after turn n.
HasNext(n) == n < MAX_RETRIES

K_uri == << "u", "r", "i" >>

K_range == << "r", "a", "n", "g", "e" >>

K_targetUri == << "t", "a", "r", "g", "e", "t", "U", "r", "i" >>

K_targetRange == << "t", "a", "r", "g", "e", "t", "R", "a", "n", "g", "e" >>

K_start == << "s", "t", "a", "r", "t" >>

K_end == << "e", "n", "d" >>

K_line == << "l", "i", "n", "e" >>

K_character == << "c", "h", "a", "r", "a", "c", "t", "e", "r" >>

Bad == [ok |-> FALSE, v |-> JNull]

Good(v) == [ok |-> TRUE, v |-> v]

\* A number of 2^32 and above, hi * 2^32 + lo, kept as its two halves.
JWide(hi, lo) == [t |-> "num", n |-> lo, hi |-> hi]

\* Value::as_u64: the number when it is an integer that is not negative.
as_u64(num) ==
    IF num.t = "num" /\ num.n >= 0
    THEN Good([hi |-> IF "hi" \in DOMAIN num THEN num.hi ELSE 0, lo |-> num.n])
    ELSE Bad

\* v as u32: the low 32 bits, v % 2^32.
as_u32(v) == v.lo

\* get_coord: as_object, get(coord), as_u64, as u32.
get_coord(value, coord) ==
    IF value.t = "obj" /\ coord \in DOMAIN value.m /\ as_u64(value.m[coord]).ok
    THEN Good(as_u32(as_u64(value.m[coord]).v))
    ELSE Bad

TextRange(start_line, start_character, end_line, end_character) ==
    [start_line |-> start_line, start_character |-> start_character,
     end_line |-> end_line, end_character |-> end_character]

parse_range(value) ==
    IF value.t # "obj" THEN Bad
    ELSE IF K_start \notin DOMAIN value.m \/ K_end \notin DOMAIN value.m THEN Bad
    ELSE LET sl == get_coord(value.m[K_start], K_line)
             sc == get_coord(value.m[K_start], K_character)
             el == get_coord(value.m[K_end], K_line)
             ec == get_coord(value.m[K_end], K_character)
         IN IF sl.ok /\ sc.ok /\ el.ok /\ ec.ok
            THEN Good(TextRange(sl.v, sc.v, el.v, ec.v))
            ELSE Bad

DefinitionTarget(uri, range) == [uri |-> uri, range |-> range]

convert_standard_location(object) ==
    IF object[K_uri].t # "str" THEN Bad
    ELSE IF K_range \notin DOMAIN object THEN Bad
    ELSE LET range == parse_range(object[K_range])
         IN IF range.ok THEN Good(DefinitionTarget(object[K_uri].s, range.v)) ELSE Bad

\* A link converted without its range.
LinkWithoutRange(object) ==
    IF object[K_targetUri].t # "str" THEN Bad
    ELSE Good(DefinitionTarget(object[K_targetUri].s, TextRange(0, 0, 0, 0)))

convert_location_link(object) ==
    IF object[K_targetUri].t # "str" THEN Bad
    ELSE IF K_targetRange \notin DOMAIN object THEN Bad
    ELSE LET range == parse_range(object[K_targetRange])
         IN IF range.ok THEN Good(DefinitionTarget(object[K_targetUri].s, range.v)) ELSE Bad

\* Location format first, then LocationLink format.
convert_location(value) ==
    IF value.t # "obj" THEN Bad
    ELSE IF K_uri \in DOMAIN value.m THEN convert_standard_location(value.m)
    ELSE IF K_targetUri \in DOMAIN value.m THEN convert_location_link(value.m)
    ELSE Bad

\* A collect that leaves out the entries that do not convert.
RECURSIVE CollectValid(_)
CollectValid(entries) ==
    IF entries = << >> THEN Good(<< >>)
    ELSE LET first == convert_location(Head(entries))
             rest == CollectValid(Tail(entries))
         IN IF first.ok THEN Good(<< first.v >> \o rest.v) ELSE rest

\* entries.iter().map(convert_location).collect(): all of them or an error.
RECURSIVE collect(_)
collect(entries) ==
    IF entries = << >> THEN Good(<< >>)
    ELSE LET first == convert_location(Head(entries))
             rest == collect(Tail(entries))
         IN IF first.ok /\ rest.ok THEN Good(<< first.v >> \o rest.v) ELSE Bad

normalize_targets(value) ==
    CASE value.t = "null" -> Good(<< >>)
      [] value.t = "arr" -> collect(value.a)
      [] value.t = "obj" -> LET one == convert_location(value)
                            IN IF one.ok THEN Good(<< one.v >>) ELSE Bad
      [] OTHER -> Bad

\* The replies of a language server to textDocument/definition.
Position(line, character) == Obj2(K_line, JNum(line), K_character, JNum(character))

Range(line) == Obj2(K_start, Position(line, 0), K_end, Position(line, 4))

Location(uri, line) == Obj2(K_uri, JStr(uri), K_range, Range(line))

LocationLink(uri, line) == Obj2(K_targetUri, JStr(uri), K_targetRange, Range(line))

\* A location whose start line is the given JSON value.
LocationAt(uri, line) ==
    Obj2(K_uri, JStr(uri), K_range,
         Obj2(K_start, Obj2(K_line, line, K_character, JNum(0)), K_end, Position(1, 4)))

\* Replies that are not in one of the shapes.
MalformedReplies ==
    { JBool(TRUE), JNum(5), JStr(<< "a" >>),
      JArr(<< JNull >>),
      JArr(<< Location(<< "a" >>, 1), JNull >>),
      JArr(<< Location(<< "a" >>, 1), Obj1(K_range, Range(1)) >>),
      JArr(<< LocationLink(<< "b" >>, 2), Obj1(K_targetUri, JStr(<< "a" >>)) >>),
      JArr(<< Obj1(K_uri, JStr(<< "a" >>)) >>),
      JArr(<< Obj2(K_uri, JStr(<< "a" >>), K_range, Obj1(K_start, Position(1, 0))) >>),
      JArr(<< Obj2(K_uri, JStr(<< "a" >>), K_range, Obj1(K_end, Position(1, 0))) >>),
      JArr(<< Location(<< "a" >>, 1), LocationAt(<< "b" >>, JNum(-1)) >>),
      JArr(<< LocationAt(<< "b" >>, JStr(<< "1" >>)) >>),
      JArr(<< Obj2(K_uri, JStr(<< "a" >>), K_range,
                   Obj2(K_start, Position(1, 0), K_end, Obj1(K_line, JNum(1)))) >>),
      Obj1(K_uri, JStr(<< "a" >>)) }

\* Replies with a coordinate of 2^32 and above.
WideReplies ==
    { LocationAt(<< "a" >>, JWide(1, 0)),
      JArr(<< Location(<< "a" >>, 1), LocationAt(<< "b" >>, JWide(1, 7)) >>) }

RawReplies ==
    { JNull, JArr(<< >>),
      Location(<< "a" >>, 1), JArr(<< Location(<< "a" >>, 1) >>), LocationLink(<< "a" >>, 1),
      JArr(<< Location(<< "a" >>, 1), LocationLink(<< "b" >>, 2) >>),
      JArr(<< LocationLink(<< "b" >>, 2), Location(<< "a" >>, 1) >>) }
      \cup MalformedReplies \cup WideReplies

\* The errors of request(): an error response, the timeout, the end of the
\* stream, a response with neither result nor error.
RequestErrors == {"remote", "timeout", "eof", "protocol"}

Failure(e) == [ok |-> FALSE, v |-> [error |-> e]]

\* What request() returns to execute: a value, or an error.
RequestOutcomes == { Good(raw) : raw \in RawReplies } \cup { Failure(e) : e \in RequestErrors }

\* An execute that does not return on the error of request().
Swallowed(raw) == raw.ok /\ ~raw.ok

\* The ? on what request() returned.
Failed(raw) == ~raw.ok

DefinitionRequest(uri, line, character) == [uri |-> uri, line |-> line, character |-> character]

Requests == { DefinitionRequest(u, l, 0) : u \in Uris, l \in 0..1 }

NoRequest == DefinitionRequest(Uri("", "", ""), 0, 0)

NoResult == [kind |-> "none", targets |-> << >>]

\* What execute's actions leave alone.
nonDef == << tvars, t_in, t_out, bvars, dvars, svars >>

XInit ==
    /\ xpc = "idle"
    /\ attempt = 0
    /\ xreq = NoRequest
    /\ queries = << >>
    /\ replies = << >>
    /\ result = NoResult

\* execute is called: params are built, the loop starts with attempt 1.
ExecStart ==
    /\ xpc = "idle"
    /\ \E request \in Requests : xreq' = request
    /\ attempt' = 1
    /\ xpc' = "request"
    /\ UNCHANGED << queries, replies, result, nonDef >>

\* One turn of the loop: the request, normalize_targets, and the return or
\* the decision to try again.
ExecAttempt ==
    /\ xpc = "request"
    /\ queries' = Append(queries, xreq)
    /\ \E raw \in RequestOutcomes :
          /\ replies' = Append(replies, raw)
          /\ LET targets == IF raw.ok THEN normalize_targets(raw.v) ELSE Bad IN
             IF Failed(raw)
             THEN /\ result' = [kind |-> "request failed", targets |-> << >>,
                                error |-> raw.v.error]
                  /\ xpc' = "done"
             ELSE IF ~targets.ok
             THEN result' = [kind |-> "format", targets |-> << >>] /\ xpc' = "done"
             ELSE IF targets.v # << >>
             THEN result' = [kind |-> "ok", targets |-> targets.v] /\ xpc' = "done"
             ELSE IF HasNext(attempt)
             THEN xpc' = "sleep" /\ UNCHANGED result
             ELSE result' = [kind |-> "ok", targets |-> << >>] /\ xpc' = "done"
    /\ UNCHANGED << xreq, attempt, nonDef >>

\* sleep(RETRY_DELAY_MS) is over: the next attempt.
ExecSleep ==
    /\ xpc = "sleep"
    /\ attempt' = attempt + 1
    /\ xpc' = "request"
    /\ UNCHANGED << xreq, queries, replies, result, nonDef >>

---------------------------------------------------------------------------
(***************************************************************************)
(* PathfinderService (service.rs): new(), and definition() called by       *)
(* concurrent callers.  The session and the document map are each behind   *)
(* a tokio Mutex.  ensure_open and request() are taken by their outcomes:  *)
(* what they return, what they write, and whether a write completes.       *)
(***************************************************************************)
Callers == 1..MaxCallers

Mutexes == {"documents", "lsp"}

\* A lock() that does not wait for the holder.
Barging(holder) == holder >= 0

\* A lock() that is granted at once.
Unlocked(holder) == holder = holder

\* A Mutex can be locked when nobody holds it.
Free(holder) == holder = 0

\* The first block taking the session lock first.
SessionLockFirst == << "lsp", "documents" >>

\* The locks of the first block of definition(), in the order it takes them.
EnsureBlockLocks == << "documents", "lsp" >>

\* The lock definition() takes for tool.execute.
ExecuteLocks == << "lsp" >>

NoServiceCall ==
    [held |-> << >>, want |-> << >>, attempt |-> 0, announced |-> 0, requests |-> 0,
     queries |-> 0, ensure |-> "none", ret |-> "none"]

nonService ==
    << tvars, t_in, t_out, dvars, xvars, released, op, cur, calls, sdLog, outcome, sent,
       hadTimeout, seen, clock, server >>

SInit ==
    /\ spc = [c \in Callers |-> "idle"]
    /\ locks = [m \in Mutexes |-> 0]
    /\ scall = [c \in Callers |-> NoServiceCall]
    /\ rounds = 0

\* PathfinderService::new: the session is spawned and initialized, and a
\* failure of either yields no service.
ServiceNew ==
    /\ bpc = "fresh"
    /\ \E ok \in BOOLEAN :
          /\ bpc' = IF ok THEN "idle" ELSE "dropped"
          /\ next_request_id' = BumpId(next_request_id)
    /\ UNCHANGED << nonService, child, svars >>

\* main: service.serve(stdio()) and server.waiting() return, and main
\* returns; the service and its session are dropped as they are.
ServeFinished ==
    /\ bpc = "idle"
    /\ \A c \in Callers : spc[c] = "idle"
    /\ bpc' = "dropped"
    /\ UNCHANGED << nonService, child, next_request_id, svars >>

\* A caller invokes the definition tool.
Call(c) ==
    /\ bpc = "idle"
    /\ spc[c] = "idle"
    /\ rounds < MaxRounds
    /\ rounds' = rounds + 1
    /\ scall' = [scall EXCEPT ![c] = [NoServiceCall EXCEPT !.want = EnsureBlockLocks]]
    /\ spc' = [spc EXCEPT ![c] = "lock"]
    /\ UNCHANGED << nonService, child, bpc, next_request_id, locks >>

\* The locks a caller no longer holds.
Released(c) == [m \in Mutexes |-> IF locks[m] = c THEN 0 ELSE locks[m]]

\* self.documents.lock().await, self.lsp.lock().await: the next lock of the
\* block is taken once it is free, and the block runs when it has them all.
Lock(c) ==
    /\ spc[c] = "lock"
    /\ LET m == Head(scall[c].want) IN
          /\ Free(locks[m])
          /\ locks' = [locks EXCEPT ![m] = c]
          /\ scall' = [scall EXCEPT ![c].want = Tail(@), ![c].held = Append(@, m)]
          /\ spc' = [spc EXCEPT ![c] =
                        IF Len(scall[c].want) > 1 THEN "lock"
                        ELSE IF scall[c].ensure = "none" THEN "ensure_open" ELSE "execute"]
    /\ UNCHANGED << nonService, child, bpc, next_request_id, rounds >>

\* definition() returns to the outer caller; its guards are dropped.
Return(c, ret) ==
    /\ scall' = [scall EXCEPT ![c].ret = ret, ![c].held = << >>, ![c].want = << >>]
    /\ locks' = Released(c)
    /\ spc' = [spc EXCEPT ![c] = "idle"]

\* What ensure_open does: it fails before it sends anything, it finds the
\* document announced and unchanged, or it announces the document.
EnsureOutcomes ==
    {"unsupported uri", "missing file", "unreadable file", "unchanged", "didOpen", "didChange"}

\* A definition() that goes on to the query whatever ensure_open returned.
IgnoreEnsure(ok) == IF ok \/ ~ok THEN "lock" ELSE "idle"

\* What definition() does with the Result of ensure_open.
AfterEnsure(ok) == IF ok THEN "lock" ELSE "idle"

\* The end of the first block.
EnsureDone(c, o, ok, n) ==
    IF AfterEnsure(ok) = "lock"
    THEN /\ scall' = [scall EXCEPT ![c].ensure = o, ![c].announced = @ + n,
                                   ![c].held = << >>, ![c].want = ExecuteLocks]
         /\ locks' = Released(c)
         /\ spc' = [spc EXCEPT ![c] = "lock"]
    ELSE /\ scall' = [scall EXCEPT ![c].ensure = o, ![c].announced = @ + n,
                                   ![c].ret = "failed to prepare document",
                                   ![c].held = << >>, ![c].want = << >>]
         /\ locks' = Released(c)
         /\ spc' = [spc EXCEPT ![c] = "idle"]

\* documents.ensure_open(&mut lsp, &request.uri).await under both locks.
EnsureOpen(c) ==
    /\ spc[c] = "ensure_open"
    /\ \E o \in EnsureOutcomes :
          IF o \in {"didOpen", "didChange"}
          THEN \E w \in WriteOutcomes :
                  CASE w = "ok" -> EnsureDone(c, o, TRUE, 1)
                    [] w = "blocked" ->
                         /\ spc' = [spc EXCEPT ![c] = "write_blocked"]
                         /\ scall' = [scall EXCEPT ![c].ensure = o]
                         /\ UNCHANGED locks
                    [] OTHER -> EnsureDone(c, "failed announcement", FALSE, 0)
          ELSE EnsureDone(c, o, o = "unchanged", 0)
    /\ UNCHANGED << nonService, child, bpc, next_request_id, rounds >>

\* One attempt of execute: request() takes an id and writes the query.
ExecRequest(c) ==
    /\ spc[c] = "execute"
    /\ next_request_id' = BumpId(next_request_id)
    /\ \E w \in WriteOutcomes :
          CASE w = "ok" ->
                 /\ scall' = [scall EXCEPT ![c].attempt = @ + 1, ![c].requests = @ + 1,
                                           ![c].queries = @ + 1]
                 /\ spc' = [spc EXCEPT ![c] = "await_response"]
                 /\ UNCHANGED locks
            [] w = "blocked" ->
                 /\ scall' = [scall EXCEPT ![c].attempt = @ + 1, ![c].requests = @ + 1]
                 /\ spc' = [spc EXCEPT ![c] = "write_blocked"]
                 /\ UNCHANGED locks
            [] OTHER ->
                 /\ Return(c, "definition failed")
    /\ UNCHANGED << nonService, child, bpc, rounds >>

\* What request() and normalize_targets make of the server's behaviour.
ResponseOutcomes ==
    CASE child = "running" -> {"targets", "empty", "remote", "protocol", "format", "timeout"}
      [] child = "stalled" -> {"timeout"}
      [] OTHER -> {"eof"}

\* The attempt ends: targets and the last empty result are returned, an
\* earlier empty result is retried after the delay, anything else fails.
ExecResponse(c) ==
    /\ spc[c] = "await_response"
    /\ \E o \in ResponseOutcomes :
          CASE o = "targets" -> Return(c, "success")
            [] o = "empty" ->
                 IF HasNext(scall[c].attempt)
                 THEN /\ spc' = [spc EXCEPT ![c] = "sleep"]
                      /\ UNCHANGED << scall, locks >>
                 ELSE Return(c, "success")
            [] OTHER -> Return(c, "definition failed")
    /\ UNCHANGED << nonService, child, bpc, next_request_id, rounds >>

\* sleep(RETRY_DELAY_MS), the session lock still held.
ExecDelay(c) ==
    /\ spc[c] = "sleep"
    /\ spc' = [spc EXCEPT ![c] = "execute"]
    /\ UNCHANGED << nonService, child, bpc, next_request_id, locks, scall, rounds >>

\* The uri the callers of one document ask about.
SharedUri == Uri("file", "/a", "rs")

\* What the steps of ensure_open on the shared document leave alone.
nonShared ==
    << tvars, t_in, t_out, xvars, released, op, cur, calls, sdLog, outcome, sent, hadTimeout,
       seen, clock, server, files, gen, dpc, dcall, dclose, dhist, child, bpc,
       next_request_id, rounds >>

\* ensure_open on the shared document up to the match on self.open.get(uri),
\* under both locks: it fails, finds the document synchronized, or goes on
\* in the arm the match has chosen.
EnsureCheck(c) ==
    /\ spc[c] = "ensure_open"
    /\ LET path == to_file_path(SharedUri) IN
       IF ~IsFileUri(SharedUri) \/ ~files[path].exists
       THEN EnsureDone(c, "missing file", FALSE, 0)
       ELSE IF SharedUri \in DOMAIN open /\ ~is_newer(files[path].mtime, open[SharedUri].mtime)
       THEN EnsureDone(c, "unchanged", TRUE, 0)
       ELSE /\ spc' = [spc EXCEPT ![c] = IF SharedUri \in DOMAIN open THEN "announce_change"
                                         ELSE "announce_open"]
            /\ UNCHANGED << scall, locks >>
    /\ UNCHANGED << nonShared, open, notes >>

\* The arm chosen: the file is read, the notification is written, and the
\* document is inserted when the write succeeded.
EnsureAnnounce(c) ==
    /\ spc[c] \in {"announce_open", "announce_change"}
    /\ LET path == to_file_path(SharedUri)
           note == IF spc[c] = "announce_change"
                   THEN DidChange(SharedUri, NextVersion(open[SharedUri].version),
                                  files[path].text)
                   ELSE DidOpen(SharedUri, language_id_for_path(path), 1, files[path].text)
       IN \E w \in WriteOutcomes :
             CASE w = "ok" ->
                    /\ notes' = Append(notes, note)
                    /\ open' = MapPut(open, SharedUri,
                                      DocumentState(note.version, files[path].mtime))
                    /\ EnsureDone(c, IF spc[c] = "announce_open" THEN "didOpen"
                                     ELSE "didChange", TRUE, 1)
               [] w = "blocked" ->
                    /\ spc' = [spc EXCEPT ![c] = "write_blocked"]
                    /\ UNCHANGED << scall, locks, open, notes >>
               [] OTHER ->
                    /\ EnsureDone(c, "failed announcement", FALSE, 0)
                    /\ UNCHANGED << open, notes >>
    /\ UNCHANGED nonShared

\* The steps the runtime takes for a caller.
CallerTurn(c) ==
    \/ Lock(c)
    \/ EnsureOpen(c)
    \/ ExecRequest(c)
    \/ ExecResponse(c)
    \/ ExecDelay(c)

---------------------------------------------------------------------------
(***************************************************************************)
(* The transport pair of transport.rs's tests: a peer transport writes     *)
(* values, the transport under test reads them.                            *)
(***************************************************************************)
\* The payload of tests::round_trip_json_payload.
TestPayload ==
    JObj(MapPut(MapPut(MapPut(EmptyMap,
        << "j", "s", "o", "n", "r", "p", "c" >>, JStr(<< "2", ".", "0" >>)),
        << "i", "d" >>, JNum(1)),
        << "m", "e", "t", "h", "o", "d" >>, JStr(<< "t", "e", "s", "t" >>)))

Payloads ==
    { JNull, JBool(FALSE), JNum(0), JNum(12), JStr(<< >>),
      JStr(<< "a", "U+E9", "\"" >>), JStr(<< "0", "1", "2", "3", "4", "5", "6", "7", "8" >>),
      JArr(<< JNum(1), JNull >>), JObj(EmptyMap),
      Obj2(<< "i", "d" >>, JNum(1), << "L" >>, JArr(<< JStr(<< "\n" >>) >>)),
      TestPayload }

vars == << tvars, t_in, t_out, bvars, dvars, xvars, svars >>

Init ==
    /\ wire = << >>
    /\ eof = FALSE
    /\ rd = RdFresh
    /\ t_in = << >>
    /\ t_out = << >>
    /\ BInit
    /\ DInit
    /\ XInit
    /\ SInit

\* left.write(&payload)
PeerWrite ==
    /\ ~eof
    /\ Len(t_in) < MaxWrites
    /\ \E v \in Payloads :
          /\ wire' = wire \o write(v)
          /\ t_in' = Append(t_in, v)
    /\ UNCHANGED << eof, rd, t_out, bvars, dvars, xvars, svars >>

\* drop(left)
PeerClose ==
    /\ ~eof
    /\ eof' = TRUE
    /\ UNCHANGED << wire, rd, t_in, t_out, bvars, dvars, xvars, svars >>

\* right.read(), which completes as soon as the bytes allow.
TransportRead ==
    /\ wire # << >> \/ eof
    /\ Len(t_out) <= Len(t_in)
    /\ LET r == read(rd, wire, eof) IN
          /\ wire' = r.wire
          /\ rd' = r.rd
          /\ t_out' = IF r.st = "pending" THEN t_out
                      ELSE Append(t_out, [st |-> r.st, v |-> r.v])
    /\ UNCHANGED << eof, t_in, bvars, dvars, xvars, svars >>

TransportNext == PeerWrite \/ PeerClose \/ TransportRead

\* The pieces a peer that writes bytes of its own puts on the stream:
\* header lines with the length under three spellings, another header, a
\* line without a colon, the blank line, a body of two bytes and half of it.
Chunk ==
    [cl |-> ContentLength \o << ":", " ", "2" >> \o CRLF,
     upper |-> << "C", "O", "N", "T", "E", "N", "T", "-", "L", "E", "N", "G", "T", "H",
                  " ", ":", "2" >> \o CRLF,
     other |-> << "A", ":", " ", "b" >> \o CRLF,
     plain |-> << "X" >> \o CRLF,
     blank |-> CRLF,
     body |-> << "{", "}" >>,
     half |-> << "{" >>]

\* The peer writes a piece.
PeerRaw ==
    /\ ~eof
    /\ Len(t_in) < MaxChunks
    /\ \E c \in DOMAIN Chunk :
          /\ wire' = wire \o Chunk[c]
          /\ t_in' = Append(t_in, c)
    /\ UNCHANGED << eof, rd, t_out, bvars, dvars, xvars, svars >>

FramingNext == PeerRaw \/ PeerClose \/ TransportRead

FramingSpec == Init /\ [][FramingNext]_vars

TransportSpec == Init /\ [][TransportNext]_vars

DocsNext == EnsureOpenStat \/ EnsureOpenSync \/ WriteFile \/ RemoveFile

DocsSpec == Init /\ [][DocsNext]_vars

\* Documents are opened and then closed together, the files left alone.
CloseNext == EnsureOpenStat \/ EnsureOpenSync \/ CloseAll

CloseSpec == Init /\ [][CloseNext]_vars

\* Documents are opened, their files rewritten, and closed together.
AnnounceNext == EnsureOpenStat \/ EnsureOpenSync \/ TouchFile \/ CloseAll

AnnounceSpec == Init /\ [][AnnounceNext]_vars

DefNext == ExecStart \/ ExecAttempt \/ ExecSleep

DefSpec == Init /\ [][DefNext]_vars

---------------------------------------------------------------------------
(***************************************************************************)
(* One session from new_with_command to shutdown.                          *)
(***************************************************************************)
Next ==
    \/ StartInitialize
    \/ StartRequest
    \/ StartShutdown
    \/ RequestWrite
    \/ RequestRead
    \/ RequestTimeout
    \/ Tick
    \/ InitNotify
    \/ SdExit
    \/ SdWaitOk
    \/ SdWaitErr
    \/ SdWaitTimeout
    \/ SdKill
    \/ ServerEmit
    \/ ServerFlush
    \/ ServerExit
    \/ ServerStall

Spec == Init /\ [][Next]_vars

\* The requests of a session against a server that sends whole frames of
\* every kind.
RequestNext ==
    \/ StartInitialize
    \/ StartRequest
    \/ RequestWrite
    \/ RequestRead
    \/ RequestTimeout
    \/ Tick
    \/ InitNotify
    \/ ServerSend
    \/ ServerExit

RequestSpec == Init /\ [][RequestNext]_vars

\* The steps the runtime takes for the bridge: a future that can proceed is
\* polled, and a timer that has elapsed fires.  The server has no such duty.
BridgeTurn ==
    \/ RequestWrite
    \/ RequestTimeout
    \/ Tick
    \/ InitNotify
    \/ SdExit
    \/ SdWaitOk
    \/ SdWaitTimeout
    \/ SdKill

\* A session that is initialized and then shut down, with no definition
\* request between the two.
LifecycleNext ==
    \/ StartInitialize
    \/ StartShutdown
    \/ BridgeTurn
    \/ RequestRead
    \/ SdWaitErr
    \/ ServerEmit
    \/ ServerFlush
    \/ ServerExit
    \/ ServerStall

\* RequestRead can be taken, and changes the state, exactly when the bridge
\* waits and bytes or the end of the stream are there for it.
ReadReady == bpc = "wait" /\ (wire # << >> \/ eof)

\* Weak fairness of RequestRead, its enabling condition written out.
ReadFair == []<>(~ReadReady) \/ []<><<RequestRead>>_vars

LiveSpec == Init /\ [][LifecycleNext]_vars /\ WF_vars(BridgeTurn) /\ ReadFair

\* The service under concurrent callers, against a server that may stop
\* reading and may exit.
ServiceNext ==
    \/ ServiceNew
    \/ \E c \in Callers : Call(c)
    \/ \E c \in Callers : Lock(c)
    \/ \E c \in Callers : EnsureOpen(c)
    \/ \E c \in Callers : ExecRequest(c)
    \/ \E c \in Callers : ExecResponse(c)
    \/ \E c \in Callers : ExecDelay(c)
    \/ ServeFinished
    \/ ServerStall
    \/ ServerExit

ServiceSpec == Init /\ [][ServiceNext]_vars

ServiceLiveSpec == ServiceSpec /\ \A c \in Callers : WF_vars(CallerTurn(c))

\* Concurrent definition calls about one document, with the document map.
SharedNext ==
    \/ ServiceNew
    \/ \E c \in Callers : Call(c)
    \/ \E c \in Callers : Lock(c)
    \/ \E c \in Callers : EnsureCheck(c)
    \/ \E c \in Callers : EnsureAnnounce(c)
    \/ \E c \in Callers : ExecRequest(c)
    \/ \E c \in Callers : ExecResponse(c)
    \/ \E c \in Callers : ExecDelay(c)
    \/ ServerStall
    \/ ServerExit

SharedSpec == Init /\ [][SharedNext]_vars

---------------------------------------------------------------------------
(***************************************************************************)
(* Properties of shutdown().                                               *)
(***************************************************************************)
\* shutdown() has returned.
ShutdownReturned == bpc = "closed"

\* C1 as the specification states it: in every state in which shutdown()
\* has returned, with Ok or with Err, the child process is terminated.
ShutdownAlwaysReleases == ShutdownReturned => child = "exited"

\* C1: in every state in which shutdown() has returned Ok the child process
\* is terminated, by an observed natural exit or by a forced kill that
\* succeeded; shutdown() returns Err only when the kill call failed, and the
\* process is then left as it was.
ShutdownOkReleases ==
    ShutdownReturned =>
        /\ outcome.fn = "shutdown"
        /\ outcome.kind \in {"ok", "kill"}
        /\ outcome.kind = "ok" => (child = "exited" /\ released \in {"natural", "killed"})
        /\ outcome.kind = "kill" => released = "no"

\* shutdown() returned Ok after a 'shutdown' request that timed out and a
\* forced kill of the running process.
ShutdownKilled ==
    /\ ShutdownReturned
    /\ outcome.kind = "ok"
    /\ released = "killed"
    /\ hadTimeout

\* The steps of the log, in order.
StepsTaken == [i \in 1..Len(sdLog) |-> sdLog[i].step]

\* The frame is a response with a result field to the 'shutdown' request
\* that was written as sent[j].
ShutdownResponse(frame, j) ==
    /\ sent[j].kind = "request"
    /\ sent[j].method = "shutdown"
    /\ frame.t = "obj"
    /\ K_id \in DOMAIN frame.m
    /\ frame.m[K_id] \in {JNum(sent[j].id), JStr(to_string(sent[j].id))}
    /\ K_result \in DOMAIN frame.m

\* C12: shutdown() sends the 'shutdown' request first; if the request fails
\* it kills the process and returns, with no 'exit' and no wait; if it
\* succeeds the 'exit' notification is attempted and, sent or not, the wait
\* for termination follows, then the kill when the wait fails or times
\* out.  No 'exit' is written before a 'shutdown' response with a result
\* was read.
ShutdownOrdering ==
    /\ \A i \in 1..Len(sent) :
          sent[i] = NotifyFrame("exit") =>
              /\ i > 1
              /\ seen # << >>
              /\ ShutdownResponse(seen[Len(seen)], i - 1)
    /\ \A i \in 1..Len(sdLog) : sdLog[i].request = (IF sdLog[1].step = "exit" THEN "ok" ELSE sdLog[1].request)
    /\ sdLog # << >> =>
          IF sdLog[1].step = "exit"
          THEN /\ sdLog[1].request = "ok"
               /\ sdLog[1].ok = (sent[Len(sent)] = NotifyFrame("exit"))
               /\ bpc \in {"sd_wait", "sd_kill", "closed"}
               /\ bpc = "sd_kill" => StepsTaken \in {<< "exit", "wait" >>, << "exit", "wait timeout" >>}
               /\ bpc = "closed" =>
                     \/ StepsTaken = << "exit", "wait" >> /\ sdLog[2].ok
                     \/ StepsTaken = << "exit", "wait", "kill" >> /\ ~sdLog[2].ok
                     \/ StepsTaken = << "exit", "wait timeout", "kill" >>
          ELSE /\ StepsTaken = << "kill" >>
               /\ sdLog[1].request \notin {"ok", "none"}
               /\ bpc = "closed"
               /\ \A i \in 1..Len(sent) : sent[i] # NotifyFrame("exit")
    /\ ShutdownReturned => sdLog # << >>
    /\ bpc = "sd_wait" => StepsTaken = << "exit" >>
    /\ (bpc = "sd_kill" /\ sdLog = << >>) =>
          (outcome.fn = "request" /\ outcome.kind \notin {"ok", "none"})

\* The 'exit' notification could not be sent, the wait failed, and the
\* process was killed: shutdown() has returned.
ExitFailedThenKilled ==
    /\ ShutdownReturned
    /\ StepsTaken = << "exit", "wait", "kill" >>
    /\ ~sdLog[1].ok
    /\ ~sdLog[2].ok

(***************************************************************************)
(* Properties of request().                                                *)
(***************************************************************************)
\* C2: a request() still waiting for its response has been running for at
\* most REQUEST_TIMEOUT seconds, whatever frames the server has sent for
\* other ids in the meantime.
BoundedFromCallStart == bpc = "wait" => callElapsed <= REQUEST_TIMEOUT

RequestFrames == SelectSeq(sent, LAMBDA f : f.kind = "request")

\* C3: the k-th request() call of a session, the initialize request
\* included, sends a frame with id k: ids start at 1, increase by 1 with
\* every call whatever the outcome of the calls before, and no id is sent
\* twice.
IdMonotonicity ==
    /\ next_request_id = calls + 1
    /\ \A i \in 1..Len(RequestFrames) :
          /\ RequestFrames[i].id = RequestFrames[i].call
          /\ \A j \in 1..Len(RequestFrames) : i < j => RequestFrames[i].id < RequestFrames[j].id

\* The third call has sent its frame, with id 3, after a call that timed out.
IdAfterFailure ==
    /\ hadTimeout
    /\ calls = 3
    /\ RequestFrames # << >>
    /\ RequestFrames[Len(RequestFrames)] = RequestFrame(3, "textDocument/definition", 3)

\* The frame carries the id n, by the wire format of JSON-RPC.
FrameHasId(frame, n) ==
    /\ frame.t = "obj"
    /\ K_id \in DOMAIN frame.m
    /\ frame.m[K_id] \in {JNum(n), JStr(to_string(n))}

\* request() has returned because of a frame it read.
EndedByFrame == outcome.fn = "request" /\ outcome.kind \in {"ok", "remote", "protocol"}

\* C4: while request() waits for id n, frames without an id and frames with
\* another id do not end the wait: the frame that ends it carries the id n,
\* and on the stream (notification, response for a stale id, response for n)
\* request() returns the result of the response for n.
ResponseFiltering ==
    /\ EndedByFrame =>
          /\ seen # << >>
          /\ FrameHasId(seen[Len(seen)], outcome.id)
          /\ \A i \in 1..(Len(seen) - 1) : ~FrameHasId(seen[i], outcome.id)
          /\ outcome.kind = "ok" => outcome.val = seen[Len(seen)].m[K_result]
    /\ \A n \in 2..(MaxCalls + 1) :
          (outcome.fn = "request" /\ outcome.id = n
               /\ seen = << NotifMsg, RespMsg(n - 1), RespMsg(n) >>)
            => (outcome.kind = "ok" /\ outcome.val = ResultOf(n))

\* request() for id 3 has read a notification, the response for id 2 and the
\* response for id 3, and has returned.
FilteredStream ==
    /\ outcome.fn = "request"
    /\ outcome.id = 3
    /\ outcome.kind = "ok"
    /\ seen = << NotifMsg, RespMsg(2), RespMsg(3) >>

\* C5: a request() that starts after an earlier request() of the session
\* timed out, and whose result response the server has sent completely,
\* returns that response's result.
UsableAfterTimeout ==
    (outcome.fn = "request" /\ cur.afterTimeout /\ outcome.ready)
        => (outcome.kind = "ok" /\ outcome.val = ResultOf(outcome.id))

(***************************************************************************)
(* Properties of DefinitionTool::execute.                                  *)
(***************************************************************************)
\* The reply normalizes to the empty target list.
NormalizesEmpty(reply) == reply.ok /\ normalize_targets(reply.v) = Good(<< >>)

\* C6: execute sends the definition query at most 3 times; it sends no
\* query after an attempt whose normalized list is non-empty and returns
\* that list; when all three attempts normalize to the empty list it
\* returns Ok with no target, not an error, and it returns an empty Ok in
\* no other case.
RetryThenSuccess ==
    /\ Len(queries) = Len(replies)
    /\ Len(queries) <= 3
    /\ \A i \in 1..Len(queries) : queries[i] = xreq
    /\ \A i \in 1..(Len(replies) - 1) : NormalizesEmpty(replies[i])
    /\ xpc \in {"request", "sleep"} =>
          (Len(replies) < 3 /\ \A i \in 1..Len(replies) : NormalizesEmpty(replies[i]))
    /\ (xpc = "done" /\ replies[Len(replies)].ok
            /\ normalize_targets(replies[Len(replies)].v).ok
            /\ ~NormalizesEmpty(replies[Len(replies)]))
          => result = [kind |-> "ok", targets |-> normalize_targets(replies[Len(replies)].v).v]
    /\ (Len(replies) = 3 /\ \A i \in 1..3 : NormalizesEmpty(replies[i]))
          => (xpc = "done" /\ result = [kind |-> "ok", targets |-> << >>])
    /\ (result.kind = "ok" /\ result.targets = << >>) => Len(replies) = 3

\* The replies were empty, empty, one location: execute has returned the
\* target of the third.
ThirdAttemptWins ==
    /\ replies = << Good(JNull), Good(JArr(<< >>)), Good(Location(<< "a" >>, 1)) >>
    /\ Len(queries) = 3
    /\ result = [kind |-> "ok",
                 targets |-> << DefinitionTarget(<< "a" >>, TextRange(1, 0, 1, 4)) >>]

\* The three shapes in which a server reports the one location (uri, line).
Shapes(uri, line) ==
    { Location(uri, line), JArr(<< Location(uri, line) >>), LocationLink(uri, line) }

\* The target list of the one location (uri, line).
OneTarget(uri, line) == << DefinitionTarget(uri, TextRange(line, 0, line, 4)) >>

\* C11: a location object, a one-element list holding it and a location
\* link with the same uri and range normalize to the same one-element
\* target list, with that uri and the four coordinates of that range: an
\* execute that ends on a reply of any of the three shapes returns it.
SameTargetForAllShapes ==
    \A uri \in {<< "a" >>, << "b" >>}, line \in 1..2 :
        /\ \A raw \in Shapes(uri, line) : normalize_targets(raw) = Good(OneTarget(uri, line))
        /\ (xpc = "done" /\ replies[Len(replies)].ok
                /\ replies[Len(replies)].v \in Shapes(uri, line))
              => result = [kind |-> "ok", targets |-> OneTarget(uri, line)]

\* execute has returned the target of a reply in the location-link shape.
LinkNormalized ==
    /\ xpc = "done"
    /\ replies # << >>
    /\ replies[Len(replies)] = Good(LocationLink(<< "a" >>, 1))
    /\ result = [kind |-> "ok", targets |-> OneTarget(<< "a" >>, 1)]

\* A position with an unsigned integer under the name.
UnsignedAt(range, end, coord) ==
    /\ range.m[end].t = "obj"
    /\ coord \in DOMAIN range.m[end].m
    /\ range.m[end].m[coord].t = "num"
    /\ range.m[end].m[coord].n >= 0

\* A range that lacks start or end, or an unsigned integer line or character.
BadRange(range) ==
    \/ range.t # "obj"
    \/ K_start \notin DOMAIN range.m
    \/ K_end \notin DOMAIN range.m
    \/ \E end \in {K_start, K_end}, coord \in {K_line, K_character} :
          ~UnsignedAt(range, end, coord)

\* The range of a list element that has one of the two pairs.
RangeOf(entry) ==
    IF K_uri \in DOMAIN entry.m THEN entry.m[K_range] ELSE entry.m[K_targetRange]

\* A list element that is not a location and not a location link.
BadElement(entry) ==
    \/ entry.t # "obj"
    \/ /\ ~({K_uri, K_range} \subseteq DOMAIN entry.m)
       /\ ~({K_targetUri, K_targetRange} \subseteq DOMAIN entry.m)
    \/ /\ \/ {K_uri, K_range} \subseteq DOMAIN entry.m
          \/ K_uri \notin DOMAIN entry.m
       /\ BadRange(RangeOf(entry))

Malformed(raw) ==
    \/ raw.t \in {"bool", "num", "str"}
    \/ raw.t = "arr" /\ \E i \in 1..Len(raw.a) : BadElement(raw.a[i])

\* C29: a reply that is a boolean, a number or a string, or a list with an
\* element that is not an object, has neither pair, or has a range without
\* start, end or an unsigned integer line and character, makes execute fail
\* at once: no target is returned, none of the list, and no attempt follows.
MalformedReplyFails ==
    (/\ replies # << >>
     /\ replies[Len(replies)].ok
     /\ Malformed(replies[Len(replies)].v))
        => /\ xpc = "done"
           /\ result = [kind |-> "format", targets |-> << >>]
           /\ Len(queries) = Len(replies)
           /\ attempt = Len(replies)

\* The second attempt was answered by a list of a location and an element
\* with a negative line, and execute failed.
GoodThenBadElement ==
    /\ Len(replies) = 2
    /\ replies[2] = Good(JArr(<< Location(<< "a" >>, 1), LocationAt(<< "b" >>, JNum(-1)) >>))
    /\ xpc = "done"
    /\ result.kind = "format"

\* The elements of a reply that is a location, a link or a list of them.
Entries(raw) == IF raw.t = "arr" THEN raw.a ELSE << raw >>

\* C30: every target execute returns has the four coordinates the server
\* sent in its range, values of 2^32 and above included, and the targets
\* are in the order of the server's list.
CoordinatesPreserved ==
    (xpc = "done" /\ result.kind = "ok" /\ result.targets # << >>)
        => LET entries == Entries(replies[Len(replies)].v) IN
           /\ Len(result.targets) = Len(entries)
           /\ \A i \in 1..Len(entries) :
                 LET given == RangeOf(entries[i])
                     range == result.targets[i].range
                 IN /\ result.targets[i].uri \in
                          {entries[i].m[k].s : k \in {K_uri, K_targetUri} \cap DOMAIN entries[i].m}
                    /\ given.m[K_start].m[K_line] = JNum(range.start_line)
                    /\ given.m[K_start].m[K_character] = JNum(range.start_character)
                    /\ given.m[K_end].m[K_line] = JNum(range.end_line)
                    /\ given.m[K_end].m[K_character] = JNum(range.end_character)

(***************************************************************************)
(* Properties of DocumentManager::ensure_open.                             *)
(***************************************************************************)
\* Calls i and i + 1 are two successive calls on one uri, with no close_all
\* between them, and the first opened the document.
OpenedThenCalled(i) ==
    /\ i + 1 <= Len(dhist)
    /\ dhist[i].uri = dhist[i + 1].uri
    /\ dhist[i].ok
    /\ ~dhist[i].pre.tracked
    /\ dhist[i + 1].pre = dhist[i].post

\* The two calls sent the didOpen of the first and nothing else, and the
\* second left the entry as it was.
OneAnnouncement(a, b) ==
    /\ a.sent = << DidOpen(a.uri, language_id_for_path(to_file_path(a.uri)), 1, a.read) >>
    /\ b.ok
    /\ b.sent = << >>
    /\ b.post = a.post
    /\ a.post = [tracked |-> TRUE, version |-> 1, mtime |-> a.modified]

\* C7 as the specification states it: two successive ensure_open calls on
\* one uri, with the file not modified between the return of the first and
\* the start of the second, send one notification in total.
IdempotentBetweenCalls ==
    \A i \in 1..Len(dhist) :
        (OpenedThenCalled(i) /\ dhist[i + 1].start.gen = dhist[i].end.gen)
            => OneAnnouncement(dhist[i], dhist[i + 1])

\* C7: two successive ensure_open calls on one uri, with the file not
\* modified from the start of the first call to the return of the second,
\* send exactly one notification in total, the didOpen of the first call;
\* the second sends nothing and leaves the recorded version and timestamp
\* unchanged.
IdempotentOnUnmodified ==
    \A i \in 1..Len(dhist) :
        (OpenedThenCalled(i) /\ dhist[i + 1].end.gen = dhist[i].start.gen)
            => OneAnnouncement(dhist[i], dhist[i + 1])

\* Two calls on an unmodified file have returned, the first with a didOpen.
OpenedTwice ==
    /\ Len(dhist) >= 2
    /\ OpenedThenCalled(1)
    /\ dhist[2].end.gen = dhist[1].start.gen
    /\ dhist[1].sent # << >>
    /\ dhist[2].sent = << >>

\* Calls i and i + 1 are two successive calls on one uri, the uri is
\* tracked after the first and until the second, and the content of the file differs between
\* the return of the first and the start of the second.
ModifiedBetween(i) ==
    /\ i + 1 <= Len(dhist)
    /\ dhist[i].uri = dhist[i + 1].uri
    /\ dhist[i].post.tracked
    /\ dhist[i + 1].pre = dhist[i].post
    /\ dhist[i].end.text # "(none)"
    /\ dhist[i + 1].start.text # "(none)"
    /\ dhist[i].end.text # dhist[i + 1].start.text

\* C8 as the specification states it: whenever the content of a tracked
\* file is modified between two ensure_open calls, the second sends a
\* didChange with the recorded version + 1 and the new text, and records
\* that version.
ChangeOnModification ==
    \A i \in 1..Len(dhist) :
        ModifiedBetween(i) =>
            /\ dhist[i + 1].sent = << DidChange(dhist[i].uri, dhist[i].post.version + 1,
                                                dhist[i + 1].start.text) >>
            /\ dhist[i + 1].post.version = dhist[i].post.version + 1

\* C8: an ensure_open call on a tracked uri that finds the file's
\* modification timestamp strictly newer than the recorded one, and that
\* returns Ok, has sent one didChange with the recorded version + 1 and the
\* full text it read, and has recorded that version and timestamp; a call
\* that finds the timestamp not strictly newer sends and records nothing,
\* whatever the content; a call that fails sends and records nothing.
ChangeOnNewerTimestamp ==
    \A i \in 1..Len(dhist) :
        LET b == dhist[i] IN
        b.pre.tracked =>
            /\ (b.ok /\ b.modified > b.pre.mtime) =>
                  /\ b.sent = << DidChange(b.uri, b.pre.version + 1, b.read) >>
                  /\ b.post = [tracked |-> TRUE, version |-> b.pre.version + 1,
                               mtime |-> b.modified]
            /\ (b.modified # -1 /\ b.modified <= b.pre.mtime) =>
                  (b.ok /\ b.sent = << >> /\ b.post = b.pre)
            /\ ~b.ok => (b.sent = << >> /\ b.post = b.pre)

\* The file was rewritten between two calls and the second has announced
\* the new text as version 2.
ChangeAnnounced ==
    /\ Len(dhist) >= 2
    /\ ModifiedBetween(1)
    /\ dhist[2].sent = << DidChange(dhist[1].uri, 2, "fn b") >>
    /\ dhist[2].post.version = 2

\* C31: an ensure_open on a uri that is not a file:// reference, or whose
\* path does not exist when it is resolved, fails, sends no notification and
\* leaves the whole document map as it was.
ResolutionFailureChangesNothing ==
    [][Len(dhist') > Len(dhist) =>
          LET call == dhist'[Len(dhist')] IN
          (call.uri.scheme # "file" \/ call.start.text = "(none)") =>
              /\ ~call.ok
              /\ call.sent = << >>
              /\ notes' = notes
              /\ open' = open]_vars

\* A document was opened, its file was removed, and the next ensure_open on
\* it has failed and left its entry with version 1.
RemovedFileKeepsEntry ==
    /\ Len(dhist) >= 2
    /\ dhist[2].uri = dhist[1].uri
    /\ dhist[2].pre = [tracked |-> TRUE, version |-> 1, mtime |-> 1]
    /\ dhist[2].start.text = "(none)"
    /\ ~dhist[2].ok
    /\ Entry(open, dhist[2].uri) = dhist[2].pre

\* C32: an ensure_open on a tracked uri whose file's timestamp is equal to
\* the stored one or earlier than it sends no notification, does not read
\* the file, and leaves the recorded version and timestamp as they were.
NotNewerIsSilent ==
    \A i \in 1..Len(dhist) :
        LET call == dhist[i] IN
        (call.pre.tracked /\ call.modified # -1 /\ call.modified <= call.pre.mtime) =>
            /\ call.ok
            /\ call.sent = << >>
            /\ call.read = "(none)"
            /\ call.post = call.pre

\* The file of a tracked document was rewritten with another text and an
\* earlier timestamp, and the next ensure_open has sent nothing.
EarlierTimestampIgnored ==
    /\ Len(dhist) >= 2
    /\ dhist[2].uri = dhist[1].uri
    /\ dhist[2].pre.tracked
    /\ dhist[2].modified # -1
    /\ dhist[2].modified < dhist[2].pre.mtime
    /\ dhist[2].start.text # dhist[1].end.text
    /\ dhist[2].sent = << >>

\* The announcement of a call: its method and its version.
Announcement(note) == << note.method, note.version >>

\* C33: when the send of didOpen or didChange fails, ensure_open returns
\* the error and the document map is as it was, with no entry for a new uri
\* and the old version and timestamp for a tracked one; the next
\* ensure_open on that uri that comes to announce tries the same
\* notification with the same version.
FailedSendChangesNothing ==
    /\ [](\A i \in 1..Len(dhist) :
            dhist[i].err = "notify" =>
                /\ ~dhist[i].ok
                /\ dhist[i].tried # NoNote
                /\ dhist[i].sent = << >>
                /\ dhist[i].post = dhist[i].pre
                /\ \A j \in (i + 1)..Len(dhist) :
                      (/\ dhist[j].uri = dhist[i].uri
                       /\ dhist[j].tried # NoNote
                       /\ \A k \in (i + 1)..(j - 1) : dhist[k].uri # dhist[i].uri)
                          => /\ dhist[j].pre = dhist[i].pre
                             /\ Announcement(dhist[j].tried) = Announcement(dhist[i].tried))
    /\ [][(Len(dhist') > Len(dhist) /\ dhist'[Len(dhist')].err = "notify")
              => (open' = open /\ notes' = notes)]_vars

\* The didChange with version 2 failed to be sent, and the next ensure_open
\* on the uri has sent the didChange with version 2.
ChangeSentAgain ==
    /\ Len(dhist) = 3
    /\ dhist[2].err = "notify"
    /\ dhist[2].tried.method = "textDocument/didChange"
    /\ dhist[2].tried.version = 2
    /\ dhist[3].uri = dhist[2].uri
    /\ dhist[3].ok
    /\ dhist[3].sent = << dhist[2].tried >>

\* The close_all calls made before the k-th frame was written.
ClosesBefore(k) == Cardinality({ c \in 1..Len(dclose) : dclose[c].at < k })

\* The didOpen and didChange frames written for the uri of frame k before
\* it and since the last close_all.
EarlierSince(k) ==
    { j \in 1..(k - 1) :
        /\ notes[j].uri = notes[k].uri
        /\ notes[j].method # "textDocument/didClose"
        /\ ClosesBefore(j) = ClosesBefore(k) }

\* C34: in the order of the frames written, and for each uri: a didChange
\* follows a didOpen written since the last close_all, a didOpen is the
\* first frame for its uri since the last close_all, the versions written
\* since the last close_all are 1, 2, 3, ... without gap or repeat, and the
\* first frame for a uri after a close_all is the didOpen with version 1.
AnnouncementProtocol ==
    \A k \in 1..Len(notes) :
        notes[k].method # "textDocument/didClose" =>
            /\ notes[k].version = Cardinality(EarlierSince(k)) + 1
            /\ notes[k].method = "textDocument/didOpen" <=> EarlierSince(k) = {}
            /\ notes[k].method = "textDocument/didChange" <=> EarlierSince(k) # {}

\* A document was opened, changed and closed, and opened again: the frames
\* are didOpen 1, didChange 2, didClose, didOpen 1.
ReopenedAfterClose ==
    /\ Len(notes) = 4
    /\ Len(dclose) = 1
    /\ \A k \in 1..4 : notes[k].uri = notes[1].uri
    /\ << notes[1].method, notes[1].version >> = << "textDocument/didOpen", 1 >>
    /\ << notes[2].method, notes[2].version >> = << "textDocument/didChange", 2 >>
    /\ notes[3].method = "textDocument/didClose"
    /\ << notes[4].method, notes[4].version >> = << "textDocument/didOpen", 1 >>

(***************************************************************************)
(* Properties of FramedTransport.                                          *)
(***************************************************************************)
\* C9: after write(V) on one transport, read() on the peer returns Some(V):
\* the i-th read returns the i-th value written, equal to it.
RoundTrip ==
    \A i \in 1..Len(t_out) :
        i <= Len(t_in) => t_out[i] = [st |-> "some", v |-> t_in[i]]

\* The payload of the repository's test and a string with a two-byte
\* character and a quote have been written and read back.
RoundTripTwo ==
    /\ t_in = << TestPayload, JStr(<< "a", "U+E9", "\"" >>) >>
    /\ Len(t_out) = 2
    /\ t_out[2] = [st |-> "some", v |-> JStr(<< "a", "U+E9", "\"" >>)]

\* One frame for one value: the header line "Content-Length: " and a
\* decimal number, the blank line, and the serialized body, whose number of
\* bytes is that number.
OneFrame(bytes, value) ==
    LET body == to_vec(value)
        h == Len(bytes) - Len(body)
    IN /\ h > 20
       /\ SubSeq(bytes, 1, 16) = << "C", "o", "n", "t", "e", "n", "t", "-",
                                    "L", "e", "n", "g", "t", "h", ":", " " >>
       /\ parse_usize(SubSeq(bytes, 17, h - 4)) = Len(body)
       /\ SubSeq(bytes, h - 3, h) = << "\r", "\n", "\r", "\n" >>
       /\ SubSeq(bytes, h + 1, Len(bytes)) = body

\* The bytes are one frame for each of the values, in their order.
RECURSIVE Framed(_, _)
Framed(bytes, values) ==
    IF values = << >> THEN bytes = << >>
    ELSE \E k \in 1..Len(bytes) :
            /\ OneFrame(SubSeq(bytes, 1, k), Head(values))
            /\ Framed(SubSeq(bytes, k + 1, Len(bytes)), Tail(values))

\* C27: write(message) puts exactly one frame on the stream: the
\* Content-Length header with the number of bytes of the serialized body,
\* the blank line, and those bytes.
WriteEmitsOneFrame ==
    (t_out = << >> /\ rd = RdFresh) => Framed(wire, t_in)

\* A string with a two-byte character has been written after another value
\* and nothing has been read: its seven bytes are six characters.
TwoByteCharWritten ==
    /\ Len(t_in) = 2
    /\ t_in[2] = JStr(<< "a", "U+E9", "\"" >>)
    /\ t_out = << >>
    /\ Len(to_vec(t_in[2])) = 7
    /\ Len(wire) > 7

\* C28: frames are delivered in order and exactly once: the i-th read()
\* returns the i-th value written, the read after the last value returns
\* Ok(None) and only once the writer has closed, and the frames not yet
\* read are whole on the stream: none is duplicated, dropped or merged.
InOrderExactlyOnce ==
    /\ \A i \in 1..Len(t_out) :
          IF i <= Len(t_in) THEN t_out[i] = [st |-> "some", v |-> t_in[i]]
          ELSE /\ i = Len(t_in) + 1
               /\ eof
               /\ t_out[i] = [st |-> "none", v |-> JNull]
    /\ rd = RdFresh => Framed(wire, SubSeq(t_in, Len(t_out) + 1, Len(t_in)))

\* Two different values have been written and read back in their order,
\* and the read after the writer closed has returned Ok(None).
TwoThenNone ==
    /\ Len(t_in) = 2
    /\ t_in[1] # t_in[2]
    /\ Len(t_out) = 3
    /\ t_out[2].v = t_in[2]
    /\ t_out[3].st = "none"

\* C10: read() on a stream that is closed with zero bytes produced returns
\* Ok(None), not an error.
EofBeforeData ==
    (t_in = << >> /\ t_out # << >>) => t_out = << [st |-> "none", v |-> JNull] >>

\* The peer was dropped before it wrote anything and read() has returned.
EofRead == t_in = << >> /\ eof /\ Len(t_out) = 1

\* The lines of a header block.
LengthLines == {"cl", "upper"}

HeaderLines == LengthLines \cup {"other", "plain"}

\* The position of the first blank line the peer wrote, 0 when none.
FirstBlank ==
    IF \E i \in 1..Len(t_in) : t_in[i] = "blank"
    THEN CHOOSE i \in 1..Len(t_in) : t_in[i] = "blank" /\ \A j \in 1..(i - 1) : t_in[j] # "blank"
    ELSE 0

\* The stream ended inside the header block: header lines, no blank line.
EndedInHeaders ==
    /\ eof
    /\ t_in # << >>
    /\ \A i \in 1..Len(t_in) : t_in[i] \in HeaderLines

\* The stream ended inside the body: a block with the length, the blank
\* line, and less than the two bytes.
EndedInBody ==
    /\ eof
    /\ FirstBlank > 1
    /\ \A i \in 1..(FirstBlank - 1) : t_in[i] \in HeaderLines
    /\ \E i \in 1..(FirstBlank - 1) : t_in[i] \in LengthLines
    /\ \/ Len(t_in) = FirstBlank
       \/ Len(t_in) = FirstBlank + 1 /\ t_in[Len(t_in)] = "half"

\* C25: when the stream ends after a header line, with or without a colon,
\* and before the blank line, or after the header block and before the
\* whole body, read() returns an error and not Ok(None).
EofInsideFrameIsError ==
    ((EndedInHeaders \/ EndedInBody) /\ t_out # << >>) => t_out[1].st = "err"

\* C26: a header block that ends with its blank line and has no
\* content-length header, the empty block and the block of colon-less lines
\* included, makes read() fail.
ContentLengthMandatory ==
    (/\ FirstBlank > 0
     /\ \A i \in 1..(FirstBlank - 1) : t_in[i] \in {"other", "plain"}
     /\ t_out # << >>) => t_out[1].st = "err"

\* C16: an attempt whose request() failed, with an error response, a
\* timeout, the end of the stream or a protocol violation, is the last:
\* execute has returned that error and made no further request; every
\* attempt that was followed by another had an empty result.
ErrorsNotRetried ==
    /\ \A i \in 1..Len(replies) :
          ~replies[i].ok =>
              /\ i = Len(replies)
              /\ Len(queries) = i
              /\ xpc = "done"
              /\ result = [kind |-> "request failed", targets |-> << >>,
                           error |-> replies[i].v.error]
    /\ \A i \in 1..Len(replies) :
          (i < Len(replies) \/ xpc \in {"sleep", "request"}) =>
              (replies[i].ok /\ normalize_targets(replies[i].v) = Good(<< >>))

\* The second attempt has timed out after an empty first result.
TimeoutOnRetry ==
    /\ xpc = "done"
    /\ Len(replies) = 2
    /\ replies[2] = Failure("timeout")
    /\ Len(queries) = 2

\* C20: a close_all that returns has attempted one textDocument/didClose
\* for every uri that was tracked when it started, those after a failed
\* send included, has written the ones that did not fail, returns Ok, and
\* leaves the document map empty whatever sends failed.
CloseAllClears ==
    [][Len(dclose') > Len(dclose) =>
          LET r == dclose'[Len(dclose')] IN
             /\ r.tracked = DOMAIN open
             /\ Len(r.attempts) = Cardinality(DOMAIN open)
             /\ \A uri \in DOMAIN open :
                   Cardinality({ i \in DOMAIN r.attempts : r.attempts[i].uri = uri }) = 1
             /\ Len(notes') = Len(notes) + Cardinality({ i \in DOMAIN r.attempts : r.attempts[i].ok })
             /\ \A i \in (Len(notes) + 1)..Len(notes') :
                   /\ notes'[i].method = "textDocument/didClose"
                   /\ \E k \in DOMAIN r.attempts :
                         r.attempts[k].ok /\ r.attempts[k].uri = notes'[i].uri
             /\ r.ret = "Ok"
             /\ open' = EmptyMap]_vars

\* close_all went on to the second document after the send for the first
\* had failed, and the map is empty.
ClosedAfterFailedSend ==
    /\ dclose # << >>
    /\ Len(dclose[1].attempts) = 2
    /\ ~dclose[1].attempts[1].ok
    /\ dclose[1].attempts[2].ok
    /\ open = EmptyMap

\* The frame request() read last.
LastSeen == seen[Len(seen)]

\* C22: request() ends on the first frame whose id matches the pending id:
\* with the value of the result field if the frame has one, null included;
\* with the server's error payload if it has an error field and no result
\* field; with the protocol error if it has neither.  The end of the stream
\* while it waits ends it with the 'server terminated' error.
MatchingFrameOutcome ==
    /\ bpc = "wait" => \A i \in 1..Len(seen) : ~FrameHasId(seen[i], cur.id)
    /\ EndedByFrame =>
          /\ seen # << >>
          /\ FrameHasId(LastSeen, outcome.id)
          /\ \A i \in 1..(Len(seen) - 1) : ~FrameHasId(seen[i], outcome.id)
          /\ IF K_result \in DOMAIN LastSeen.m
             THEN outcome.kind = "ok" /\ outcome.val = LastSeen.m[K_result]
             ELSE IF K_error \in DOMAIN LastSeen.m
             THEN outcome.kind = "remote" /\ outcome.val = LastSeen.m[K_error]
             ELSE outcome.kind = "protocol"
    /\ (outcome.fn = "request" /\ outcome.kind = "eof") =>
          /\ eof /\ wire = << >>
          /\ \A i \in 1..Len(seen) : ~FrameHasId(seen[i], outcome.id)

\* request() has returned null, the result of a response that gave the id
\* as a number, after a frame it skipped.
NullResultReturned ==
    /\ outcome.fn = "request"
    /\ outcome.kind = "ok"
    /\ outcome.val = JNull
    /\ Len(seen) = 2
    /\ LastSeen = NullMsg(outcome.id)

\* C23: request() does not end on a frame that is a request of the server,
\* one with an id and a method, also when its id equals the pending id.
ServerRequestSkipped == EndedByFrame => K_method \notin DOMAIN LastSeen.m

\* C24: whatever calls came before, timed-out ones included, a value that
\* the call with id n returns is the result field of a frame with id n, the
\* result the server gave to request n; a response to an earlier request
\* that arrives late is skipped.
NoMisattribution ==
    (outcome.fn = "request" /\ outcome.kind = "ok") =>
        /\ seen # << >>
        /\ FrameHasId(LastSeen, outcome.id)
        /\ outcome.val = LastSeen.m[K_result]
        /\ outcome.val = ResultOf(outcome.id)
        /\ \A i \in 1..(Len(seen) - 1) : ~FrameHasId(seen[i], outcome.id)

\* A call made after a timed-out one has skipped the late response to the
\* request before it and returned its own.
LateResponseSkipped ==
    /\ outcome.fn = "request"
    /\ outcome.kind = "ok"
    /\ cur.afterTimeout
    /\ \E i \in 1..(Len(seen) - 1) :
          FrameHasId(seen[i], outcome.id - 1) /\ K_result \in DOMAIN seen[i].m

---------------------------------------------------------------------------
(***************************************************************************)
(* Properties of initialize() and PathfinderService::new.                  *)
(***************************************************************************)
\* The session was dropped by PathfinderService::new: there is no service.
NoService == bpc = "dropped"

\* C17: the 'initialized' notification is written only after initialize's
\* request has returned a response with the request's id and a result field,
\* and it is the second frame of the session, after the 'initialize'
\* request.  When that request fails, initialize returns the error, no
\* 'initialized' is written, there is no service, and no frame is ever
\* written on that session again.
HandshakeOrdering ==
    /\ [](\A i \in 1..Len(sent) :
            sent[i] = NotifyFrame("initialized") =>
                (i = 2 /\ sent[1] = RequestFrame(1, "initialize", 1) /\ ~NoService))
    /\ [][(sent' # sent /\ sent'[Len(sent')] = NotifyFrame("initialized")) =>
            /\ bpc = "init_notify"
            /\ outcome.fn = "request" /\ outcome.kind = "ok" /\ outcome.id = 1
            /\ seen # << >>
            /\ FrameHasId(seen[Len(seen)], 1)
            /\ K_result \in DOMAIN seen[Len(seen)].m]_vars
    /\ []((op = "none" /\ outcome.fn = "request" /\ outcome.id = 1 /\ outcome.kind # "ok") =>
            (NoService /\ Len(sent) <= 1))
    /\ [](NoService =>
            /\ outcome.kind \in {"write", "timeout", "eof", "framing", "remote", "protocol"}
            /\ \A i \in 1..Len(sent) : sent[i] = RequestFrame(1, "initialize", 1))
    /\ [][NoService => (NoService' /\ sent' = sent /\ next_request_id' = next_request_id)]_vars

\* The server answered 'initialize' with neither result nor error, after a
\* notification: there is no service.
InitializeRejected ==
    /\ NoService
    /\ outcome.kind = "protocol"
    /\ Len(seen) = 2
    /\ sent = << RequestFrame(1, "initialize", 1) >>

---------------------------------------------------------------------------
(***************************************************************************)
(* Liveness of shutdown().                                                 *)
(***************************************************************************)
\* C13: once shutdown() is called it eventually returns, also when the
\* server never replies, never exits and no longer reads its standard input.
ShutdownEventuallyReturns == (op = "shutdown") ~> ShutdownReturned

\* C13, its second half: once shutdown() is called the child process is
\* eventually terminated.
ShutdownEventuallyTerminates == (op = "shutdown") ~> (child = "exited")

\* shutdown() returns unless one of its writes never completes.
ShutdownReturnsOrBlocks == (op = "shutdown") ~> (ShutdownReturned \/ bpc = "write_blocked")

\* shutdown() is stuck in a write to a server that does not read.
ShutdownBlockedInWrite == op = "shutdown" /\ bpc = "write_blocked"

---------------------------------------------------------------------------
(***************************************************************************)
(* Properties of PathfinderService::definition.                            *)
(***************************************************************************)
\* C14: every definition call eventually returns to the outer caller, a
\* result or an error message; no call hangs, whatever the server does and
\* whatever locks other calls hold.
DefinitionEventuallyReturns == \A c \in Callers : (spc[c] # "idle") ~> (spc[c] = "idle")

\* A call is stuck in a write the server does not read, or behind such a
\* call's locks.
Hung(c) ==
    \/ spc[c] = "write_blocked"
    \/ /\ spc[c] = "lock"
       /\ \E d \in Callers : locks[Head(scall[c].want)] = d /\ spc[d] = "write_blocked"

\* A definition call returns unless a write to the server never completes.
DefinitionReturnsOrHangs == \A c \in Callers : (spc[c] # "idle") ~> (spc[c] = "idle" \/ Hung(c))

\* The ways ensure_open fails.
EnsureErrors == {"unsupported uri", "missing file", "unreadable file", "failed announcement"}

\* C15: when ensure_open returns an error the definition call returns the
\* error message at once: it has sent no textDocument/definition request and
\* has taken no request id; and that message is returned for no other reason.
FailedSyncAborts ==
    \A c \in Callers :
        /\ scall[c].ensure \in EnsureErrors =>
               /\ spc[c] = "idle"
               /\ scall[c].ret = "failed to prepare document"
               /\ scall[c].queries = 0
               /\ scall[c].requests = 0
               /\ scall[c].held = << >>
        /\ scall[c].ret = "failed to prepare document" => scall[c].ensure \in EnsureErrors

\* A call has failed on its announcement while the other call had queried.
SyncFailedAfterExit ==
    \E c, d \in Callers :
        /\ scall[c].ensure = "failed announcement"
        /\ scall[c].ret = "failed to prepare document"
        /\ scall[d].queries > 0

\* A caller is inside tool.execute: between its attempts, in one, or asleep.
Executing(c) == spc[c] \in {"execute", "await_response", "sleep"}

\* The frames a caller has written in its current call.
Written(c) == scall[c].announced + scall[c].queries

\* The lock a waiting caller waits for is held by this caller (0: by none).
WaitsFor(c) == IF spc[c] = "lock" THEN locks[Head(scall[c].want)] ELSE 0

\* C18: a call takes the document-map lock before the session lock and
\* never the other way round, holds only the session lock once it queries,
\* and no set of calls waits in a cycle, each for a lock another one holds.
LockOrdering ==
    /\ \A c \in Callers :
          /\ scall[c].held \in {<< >>, << "documents" >>, << "documents", "lsp" >>, << "lsp" >>}
          /\ \A m \in Mutexes : locks[m] = c <=> (\E k \in 1..Len(scall[c].held) : scall[c].held[k] = m)
          /\ (Executing(c) \/ scall[c].requests > 0) /\ spc[c] # "idle" => scall[c].held = << "lsp" >>
          /\ spc[c] = "ensure_open" => scall[c].held = << "documents", "lsp" >>
    /\ \A S \in SUBSET Callers : S # {} => \E c \in S : WaitsFor(c) \notin S

\* A call that holds the document-map lock waits for the session lock while
\* another call is querying under it.
WaitsBehindQuery ==
    \E c, d \in Callers :
        /\ spc[c] = "lock"
        /\ scall[c].held = << "documents" >>
        /\ locks["lsp"] = d
        /\ spc[d] = "await_response"

\* C19: while a caller is inside execute, from its first request to its
\* return, through every attempt and delay, no other caller stands anywhere
\* but before a lock, and no step writes a frame for another caller or
\* takes a response for one.
OneAtATime ==
    /\ [](\A c, d \in Callers : (c # d /\ Executing(c)) => spc[d] \in {"idle", "lock"})
    /\ [][\A c, d \in Callers :
            (c # d /\ Executing(c)) =>
                /\ Written(d)' <= Written(d)
                /\ scall[d].requests' <= scall[d].requests
                /\ spc[d] = "await_response" => spc[d]' = "await_response"]_vars

\* A caller is in its second attempt while the other waits for the session.
SecondAttemptHoldsSession ==
    \E c, d \in Callers :
        /\ spc[c] = "await_response"
        /\ scall[c].attempt = 2
        /\ spc[d] = "lock"
        /\ scall[d].want = << "lsp" >>

---------------------------------------------------------------------------
(***************************************************************************)
(* The lifecycle of the child process in the program (main.rs).            *)
(***************************************************************************)
\* C21: on every path on which the program stops using the session, after
\* a failed handshake in PathfinderService::new and after the outer server
\* has finished serving, the child process has been released by shutdown()
\* or by a kill, and not left to the drop of the session.
ReleasedWhenDropped == NoService => released \in {"natural", "killed"}

\* The didOpen frames written for the shared document.
OpensWritten == Len(SelectSeq(notes, LAMBDA n : n.method = "textDocument/didOpen"))

\* C35: under any interleaving of concurrent definition calls about one
\* document that is not tracked, the match on the map, the announcement and
\* the insertion are made by a caller that holds both locks, one didOpen is
\* written and nothing else is announced, and a query is written only once
\* that didOpen has been.
OneOpenBeforeQueries ==
    /\ OpensWritten <= 1
    /\ Len(notes) = OpensWritten
    /\ \A c \in Callers :
          /\ spc[c] \in {"ensure_open", "announce_open", "announce_change"}
                => \A m \in Mutexes : locks[m] = c
          /\ scall[c].queries > 0 => (OpensWritten = 1 /\ SharedUri \in DOMAIN open)

\* Two callers asked about the document before it was opened: the first
\* opened it and has its answer, the second found it open while the first
\* was between its two blocks or later, and has written its query.
SecondCallerFindsOpen ==
    /\ scall[1].ensure = "didOpen"
    /\ scall[1].ret = "success"
    /\ scall[2].ensure = "unchanged"
    /\ spc[2] = "await_response"
    /\ scall[2].queries = 1
    /\ rounds = 2
    /\ OpensWritten = 1

=============================================================================
